---- MODULE Spec2Model ----
(***************************************************************************)
(* A model of The Only Lift (src/script.js): the Elevator entity, the      *)
(* World entity that drives it, the auto-close timer and the wall clock.   *)
(*                                                                         *)
(* Fixed point.  The source computes in IEEE doubles; the model keeps      *)
(*   lengths      in 1/10000 m        (3.0 m      = 30000)                 *)
(*   velocities   in 1/10000 m/s      (2.5 m/s    = 25000)                 *)
(*   accelerations in 1/10000 m/s^2   (1.5 m/s^2  = 15000)                 *)
(*   doorProgress in 1/10000          (1.0        = 10000)                 *)
(*   times        in milliseconds, loads in kilograms                      *)
(* and rounds every product with dt toward zero.  One simulation step is   *)
(* dt = 1/60 s (STEP_MS), the only dt the frame loop passes to World.step. *)
(***************************************************************************)
EXTENDS Integers, Sequences, FiniteSets, TLC

VARIABLES
    elev,            \* World.elev: the Elevator object, a record of its fields
    calls,           \* World.calls
    scheduled,       \* World.scheduled
    eventWindow,     \* World.eventWindow
    lastPlayerCall,  \* World.lastPlayerCall
    npcs,            \* World.npcs
    loop,            \* the frame loop: lastRAF, accumulator, steps of the last frame
    now,             \* the wall clock read by nowMs()
    last,            \* history: the last command invoked, its argument and result
    budget           \* exploration budget left for inputs and random draws

vars == <<elev, calls, scheduled, eventWindow, lastPlayerCall, npcs, loop, now, last, budget>>

-----------------------------------------------------------------------------
(* Program constants, in the model's units *)

NoFloor == 0 - 1                 \* null in targetFloor / arrivalFloor
NoTimer == 0 - 1                 \* null in _autoCloseTimer
NoKey == <<>>                    \* null in _lastManualActionKey

DefaultFloors == 18
DefaultFloorHeight == 30000
PassengerWeightKg == 75
MaxSpeedMps == 25000
AccelLimit == 15000
BrakeLimit == 20000
DoorActionCooldownMs == 900
DoorAutoCloseMs == 10000
OverloadLimitKg == 1800
MinDoorHealth == 5
StepsPerSecond == 60
ArriveDist == 300                \* 0.03 m
ArriveSpeed == 600               \* 0.06 m/s
IdleSpeed == 100                 \* 0.01 m/s
DoorFull == 10000                \* doorProgress 1
DoorStopThreshold == 500         \* doorProgress 0.05
DoorReadyThreshold == 9000       \* doorProgress 0.9
DoorBoardThreshold == 9800       \* doorProgress 0.98
PlayerCallDebounceMs == 1800
ManualActionWindowMs == 2500
EventWindowMs == 60000
StepThirds == 50                 \* STEP_MS = 1000 / 60 ms, in thirds of a millisecond
FrameDeltaCapMs == 200           \* Math.min(200, now - lastRAF)
MaxStepsPerFrame == 8            \* steps < 8
EventCap == 6

-----------------------------------------------------------------------------
(* Utilities *)

Min(a, b) == IF a < b THEN a ELSE b
Max(a, b) == IF a > b THEN a ELSE b
Abs(a) == IF a < 0 THEN 0 - a ELSE a
Sign(a) == IF a > 0 THEN 1 ELSE IF a < 0 THEN 0 - 1 ELSE 0
\* product with a fraction, rounded toward zero
TDiv(a, b) == IF a >= 0 THEN a \div b ELSE 0 - ((0 - a) \div b)

clamp(v, a, b) == Max(a, Min(b, v))

InSeq(x, s) == \E i \in 1..Len(s) : s[i] = x
RemoveAt(s, i) == [j \in 1..(Len(s) - 1) |-> IF j < i THEN s[j] ELSE s[j + 1]]

-----------------------------------------------------------------------------
(* Elevator *)

NewElevator(floors, floorHeight, initialFloor) ==
    [ floors |-> floors,
      floorHeight |-> floorHeight,
      position |-> clamp(initialFloor, 0, floors - 1) * floorHeight,
      velocity |-> 0,
      acceleration |-> 0,
      targetFloor |-> NoFloor,
      queue |-> <<>>,
      state |-> "IDLE",
      doorsOpen |-> FALSE,
      doorProgress |-> 0,
      loadKg |-> 0,
      playerInside |-> FALSE,
      lastDoorActionMs |-> 0,
      doorCooldownMs |-> DoorActionCooldownMs,
      overloadLimitKg |-> OverloadLimitKg,
      arrivalFloor |-> NoFloor,
      door |-> 100,
      autoCloseMs |-> DoorAutoCloseMs,
      arrivalTs |-> 0,
      autoCloseTimer |-> NoTimer,
      lastManualActionKey |-> NoKey,
      lastManualActionTs |-> 0 ]

floorToMeters(e, f) == clamp(f, 0, e.floors - 1) * e.floorHeight

\* Math.round(m / floorHeight): halves round up
metersToFloor(e, m) == (2 * m + e.floorHeight) \div (2 * e.floorHeight)

\* requestFloor that drops a request made while a target or a queue exists
requestFloor_dropBusy(e, f) ==
    LET ff == clamp(f, 0, e.floors - 1) IN
    IF e.targetFloor = NoFloor /\ Len(e.queue) = 0
    THEN [e EXCEPT !.targetFloor = ff]
    ELSE e

\* requestFloor that always queues and leaves the choice of a target to step
requestFloor_queueOnly(e, f) ==
    LET ff == clamp(f, 0, e.floors - 1) IN
    IF ~InSeq(ff, e.queue) /\ e.targetFloor # ff
    THEN [e EXCEPT !.queue = Append(e.queue, ff)]
    ELSE e

requestFloor(e, f) ==
    LET ff == clamp(f, 0, e.floors - 1) IN
    IF e.targetFloor = NoFloor /\ Len(e.queue) = 0
    THEN [e EXCEPT !.targetFloor = ff]
    ELSE IF ~InSeq(ff, e.queue) /\ e.targetFloor # ff
         THEN [e EXCEPT !.queue = Append(e.queue, ff)]
         ELSE e

\* requestExternal that appends without looking for the floor in the queue
requestExternal_noIncludes(e, f) ==
    LET ff == clamp(f, 0, e.floors - 1) IN
    IF e.targetFloor = NoFloor /\ Len(e.queue) = 0
    THEN [e EXCEPT !.targetFloor = ff]
    ELSE IF e.targetFloor # ff
         THEN [e EXCEPT !.queue = Append(e.queue, ff)]
         ELSE e

requestExternal(e, f) ==
    LET ff == clamp(f, 0, e.floors - 1) IN
    IF e.targetFloor = NoFloor /\ Len(e.queue) = 0
    THEN [e EXCEPT !.targetFloor = ff]
    ELSE IF ~InSeq(ff, e.queue) /\ e.targetFloor # ff
         THEN [e EXCEPT !.queue = Append(e.queue, ff)]
         ELSE e

openDoorsOk_noHealth(e) == TRUE

openDoorsOk(e) == e.door >= MinDoorHealth

\* a successful open clears the previous timer and arms a new one
openDoors(e, t) ==
    IF ~openDoorsOk(e) THEN e
    ELSE [e EXCEPT !.doorsOpen = TRUE,
                   !.state = "DOOR_OPEN",
                   !.arrivalTs = t,
                   !.autoCloseTimer = t + e.autoCloseMs]

closeDoorsOk(e) == e.door >= MinDoorHealth

closeDoors(e) ==
    IF ~closeDoorsOk(e) THEN e
    ELSE [e EXCEPT !.autoCloseTimer = NoTimer,
                   !.doorsOpen = FALSE,
                   !.state = "DOOR_CLOSED"]

\* the callback armed by openDoors; the timer handle stays set after it ran
autoCloseCallback(e) == IF e.doorsOpen THEN closeDoors(e) ELSE e

\* enterPlayer without its overload test
enterPlayerOk_noOverload(e, weight, t) ==
    /\ e.doorsOpen /\ e.doorProgress >= DoorReadyThreshold
    /\ ~e.playerInside
    /\ ~(t - e.lastDoorActionMs < e.doorCooldownMs)

\* enterPlayer without its playerInside test
enterPlayerOk_noInside(e, weight, t) ==
    /\ e.doorsOpen /\ e.doorProgress >= DoorReadyThreshold
    /\ ~(t - e.lastDoorActionMs < e.doorCooldownMs)
    /\ ~(e.loadKg + weight > e.overloadLimitKg)

enterPlayerOk(e, weight, t) ==
    /\ e.doorsOpen /\ e.doorProgress >= DoorReadyThreshold
    /\ ~e.playerInside
    /\ ~(t - e.lastDoorActionMs < e.doorCooldownMs)
    /\ ~(e.loadKg + weight > e.overloadLimitKg)

enterPlayer(e, weight, t) ==
    IF ~enterPlayerOk(e, weight, t) THEN e
    ELSE [e EXCEPT !.loadKg = e.loadKg + weight,
                   !.playerInside = TRUE,
                   !.lastDoorActionMs = t]

\* exitPlayer without its cooldown test
exitPlayerOk_noCooldown(e, weight, t) ==
    /\ e.doorsOpen /\ e.doorProgress >= DoorReadyThreshold
    /\ e.playerInside

exitPlayerOk(e, weight, t) ==
    /\ e.doorsOpen /\ e.doorProgress >= DoorReadyThreshold
    /\ e.playerInside
    /\ ~(t - e.lastDoorActionMs < e.doorCooldownMs)

exitPlayer(e, weight, t) ==
    IF ~exitPlayerOk(e, weight, t) THEN e
    ELSE [e EXCEPT !.loadKg = Max(0, e.loadKg - weight),
                   !.playerInside = FALSE,
                   !.lastDoorActionMs = t]

manualActionBlocked(e, actionKey, t) ==
    e.lastManualActionKey = actionKey /\ (t - e.lastManualActionTs) < ManualActionWindowMs

tryEnterOnceOk(e, actionKey, weight, t) ==
    ~manualActionBlocked(e, actionKey, t) /\ enterPlayerOk(e, weight, t)

tryEnterOnce(e, actionKey, weight, t) ==
    IF ~tryEnterOnceOk(e, actionKey, weight, t) THEN e
    ELSE [enterPlayer(e, weight, t) EXCEPT !.lastManualActionKey = actionKey,
                                           !.lastManualActionTs = t]

tryExitOnceOk(e, actionKey, weight, t) ==
    ~manualActionBlocked(e, actionKey, t) /\ exitPlayerOk(e, weight, t)

tryExitOnce(e, actionKey, weight, t) ==
    IF ~tryExitOnceOk(e, actionKey, weight, t) THEN e
    ELSE [exitPlayer(e, weight, t) EXCEPT !.lastManualActionKey = actionKey,
                                          !.lastManualActionTs = t]

\* index of the first queue entry at minimum distance from cur
RECURSIVE NearestIdx(_, _, _, _, _)
NearestIdx(floorsSeq, cur, i, bestIdx, bestDist) ==
    IF i > Len(floorsSeq) THEN bestIdx
    ELSE LET d == Abs(floorsSeq[i] - cur) IN
         IF bestDist < 0 \/ d < bestDist
         THEN NearestIdx(floorsSeq, cur, i + 1, i, d)
         ELSE NearestIdx(floorsSeq, cur, i + 1, bestIdx, bestDist)

\* popNextTarget that takes the head of the queue
popNextTarget_head(e) ==
    IF e.targetFloor # NoFloor THEN e
    ELSE IF Len(e.queue) = 0 THEN e
    ELSE [e EXCEPT !.targetFloor = e.queue[1], !.queue = RemoveAt(e.queue, 1)]

popNextTarget(e) ==
    IF e.targetFloor # NoFloor THEN e
    ELSE IF Len(e.queue) = 0 THEN e
    ELSE LET cur == metersToFloor(e, e.position)
             bestIdx == NearestIdx(e.queue, cur, 1, 1, 0 - 1)
         IN [e EXCEPT !.targetFloor = e.queue[bestIdx],
                      !.queue = RemoveAt(e.queue, bestIdx)]

\* ds * dt: door travel per step, scaled by door health
doorStep(e) == ((500 + 8 * e.door) * 5) \div 27

doorAdvance(e) ==
    IF e.doorsOpen THEN clamp(e.doorProgress + doorStep(e), 0, DoorFull)
    ELSE clamp(e.doorProgress - doorStep(e), 0, DoorFull)

\* the acceleration chosen toward the target: brake inside the braking
\* distance, else a clamped proportional speed controller
motionAccel(e) ==
    LET targetPos == floorToMeters(e, e.targetFloor)
        dist == targetPos - e.position
        dir == IF dist = 0 THEN 1 ELSE Sign(dist)
        absDist == Abs(dist)
        brakingDist == (e.velocity * e.velocity) \div (2 * BrakeLimit)
    IN IF absDist <= brakingDist + ArriveDist
       THEN (0 - BrakeLimit) * (IF e.velocity = 0 THEN dir ELSE Sign(e.velocity))
       ELSE clamp(TDiv((MaxSpeedMps * dir - e.velocity) * 18, 10), 0 - BrakeLimit, AccelLimit)

arrivalDetected(absDist, velocity) == absDist < ArriveDist /\ Abs(velocity) < ArriveSpeed

\* Elevator.step that leaves the cabin where the last integration put it
step_noSnap(e, t) ==
    LET e1 == [e EXCEPT !.doorProgress = doorAdvance(e)] IN
    IF e1.state = "EMERGENCY" THEN [e |-> e1, arrived |-> FALSE]
    ELSE IF e1.doorsOpen /\ e1.doorProgress > DoorStopThreshold
    THEN [e |-> [e1 EXCEPT !.velocity = 0, !.acceleration = 0, !.state = "DOOR_OPEN"],
          arrived |-> FALSE]
    ELSE
    LET e2 == IF e1.targetFloor = NoFloor /\ Len(e1.queue) > 0 THEN popNextTarget(e1) ELSE e1 IN
    IF e2.targetFloor = NoFloor
    THEN LET acc == TDiv((0 - e2.velocity) * 18, 10)
             vel == e2.velocity + TDiv(acc, StepsPerSecond)
             pos == e2.position + TDiv(vel, StepsPerSecond)
         IN IF Abs(vel) < IdleSpeed
            THEN [e |-> [e2 EXCEPT !.position = pos, !.velocity = 0, !.acceleration = 0,
                                   !.state = "IDLE"],
                  arrived |-> FALSE]
            ELSE [e |-> [e2 EXCEPT !.position = pos, !.velocity = vel, !.acceleration = acc],
                  arrived |-> FALSE]
    ELSE
    LET targetPos == floorToMeters(e2, e2.targetFloor)
        absDist == Abs(targetPos - e2.position)
        acc == motionAccel(e2)
        vel == clamp(e2.velocity + TDiv(acc, StepsPerSecond), 0 - MaxSpeedMps, MaxSpeedMps)
        pos == e2.position + TDiv(vel, StepsPerSecond)
        e3 == [e2 EXCEPT !.acceleration = acc, !.velocity = vel, !.position = pos,
                         !.state = "MOVING"]
    IN IF arrivalDetected(absDist, vel)
       THEN [e |-> openDoors([e3 EXCEPT !.velocity = 0,
                                        !.acceleration = 0,
                                        !.arrivalFloor = e2.targetFloor,
                                        !.targetFloor = NoFloor,
                                        !.state = "ARRIVED"], t),
             arrived |-> TRUE]
       ELSE [e |-> e3, arrived |-> FALSE]

\* Elevator.step(dt) with dt = 1/60 s, at wall-clock time t.
\* The result carries "arrived": whether lift:arrived was dispatched.
step(e, t) ==
    LET e1 == [e EXCEPT !.doorProgress = doorAdvance(e)] IN
    IF e1.state = "EMERGENCY" THEN [e |-> e1, arrived |-> FALSE]
    ELSE IF e1.doorsOpen /\ e1.doorProgress > DoorStopThreshold
    THEN [e |-> [e1 EXCEPT !.velocity = 0, !.acceleration = 0, !.state = "DOOR_OPEN"],
          arrived |-> FALSE]
    ELSE
    LET e2 == IF e1.targetFloor = NoFloor /\ Len(e1.queue) > 0 THEN popNextTarget(e1) ELSE e1 IN
    IF e2.targetFloor = NoFloor
    THEN LET acc == TDiv((0 - e2.velocity) * 18, 10)
             vel == e2.velocity + TDiv(acc, StepsPerSecond)
             pos == e2.position + TDiv(vel, StepsPerSecond)
         IN IF Abs(vel) < IdleSpeed
            THEN [e |-> [e2 EXCEPT !.position = pos, !.velocity = 0, !.acceleration = 0,
                                   !.state = "IDLE"],
                  arrived |-> FALSE]
            ELSE [e |-> [e2 EXCEPT !.position = pos, !.velocity = vel, !.acceleration = acc],
                  arrived |-> FALSE]
    ELSE
    LET targetPos == floorToMeters(e2, e2.targetFloor)
        absDist == Abs(targetPos - e2.position)
        acc == motionAccel(e2)
        vel == clamp(e2.velocity + TDiv(acc, StepsPerSecond), 0 - MaxSpeedMps, MaxSpeedMps)
        pos == e2.position + TDiv(vel, StepsPerSecond)
        e3 == [e2 EXCEPT !.acceleration = acc, !.velocity = vel, !.position = pos,
                         !.state = "MOVING"]
    IN IF arrivalDetected(absDist, vel)
       THEN [e |-> openDoors([e3 EXCEPT !.position = targetPos,
                                        !.velocity = 0,
                                        !.acceleration = 0,
                                        !.arrivalFloor = e2.targetFloor,
                                        !.targetFloor = NoFloor,
                                        !.state = "ARRIVED"], t),
             arrived |-> TRUE]
       ELSE [e |-> e3, arrived |-> FALSE]

-----------------------------------------------------------------------------
(* World *)

\* the World's fields as one value, so that the sub-steps of World.step compose
World(e, c, s, w, l, n) ==
    [elev |-> e, calls |-> c, scheduled |-> s, eventWindow |-> w, lastPlayerCall |-> l,
     npcs |-> n]

\* the frame loop's variables when the script starts: lastRAF is the time of
\* the first animation frame, the accumulator is empty; thirds of a millisecond
NewLoop(t) == [lastRAF |-> t, accumulator |-> 0, steps |-> 0]

CurWorld == World(elev, calls, scheduled, eventWindow, lastPlayerCall, npcs)

\* initNPCs creates round(floors * 0.02) NPCs: none below 25 floors
npcCount(floors) == (2 * floors + 50) \div 100

\* initNPCs for a configuration that yields count NPCs; d is the draw rand(20000, 90000)
NpcIds == <<"NPC-1", "NPC-2", "NPC-3", "NPC-4">>

initNPCs(count, t, d) ==
    [i \in 1..count |-> [id |-> NpcIds[i], nextActionMs |-> t + d, busyUntil |-> 0]]

NewWorld(floors, floorHeight, initialFloor, t) ==
    World(NewElevator(floors, floorHeight, initialFloor), <<>>, <<>>,
          [start |-> t, count |-> 0, cap |-> EventCap],
          [floor |-> NoFloor, dir |-> "none", ts |-> 0],
          initNPCs(npcCount(floors), t, 0))

isLive(c) == c.status = "pending" \/ c.status = "assigned"

playerCallDebounced(w, floor, dir, t) ==
    /\ w.lastPlayerCall.floor = floor
    /\ w.lastPlayerCall.dir = dir
    /\ t - w.lastPlayerCall.ts < PlayerCallDebounceMs

\* playerCall without the search for a live call
playerCallDuplicate_never(w, floor, dir) == FALSE

playerCallDuplicate(w, floor, dir) ==
    \E i \in 1..Len(w.calls) :
        w.calls[i].floor = floor /\ w.calls[i].dir = dir /\ isLive(w.calls[i])

playerCallOk(w, floor, dir, t) ==
    ~playerCallDebounced(w, floor, dir, t) /\ ~playerCallDuplicate(w, floor, dir)

\* r is the Math.random() part of the call id
playerCall(w, floor, dir, t, r) ==
    IF playerCallDebounced(w, floor, dir, t) THEN w
    ELSE LET w1 == [w EXCEPT !.lastPlayerCall = [floor |-> floor, dir |-> dir, ts |-> t]] IN
         IF playerCallDuplicate(w, floor, dir) THEN w1
         ELSE [w1 EXCEPT !.calls = Append(@, [id |-> <<t, r>>, floor |-> floor, dir |-> dir,
                                              who |-> "Passenger", status |-> "pending"])]

requestExternalCall(w, floor, dir, who, t, r) ==
    IF \E i \in 1..Len(w.calls) :
          /\ w.calls[i].floor = floor /\ w.calls[i].dir = dir
          /\ isLive(w.calls[i]) /\ w.calls[i].who = who
    THEN w
    ELSE [w EXCEPT !.calls = Append(@, [id |-> <<t, r>>, floor |-> floor, dir |-> dir,
                                        who |-> who, status |-> "pending"])]

\* indices of the pending calls, in list order
RECURSIVE pendingIdx(_, _)
pendingIdx(c, i) ==
    IF i > Len(c) THEN <<>>
    ELSE IF c[i].status = "pending" THEN <<i>> \o pendingIdx(c, i + 1)
    ELSE pendingIdx(c, i + 1)

\* findIndex(c => c.id === id): the first call with that id, 0 when none
RECURSIVE findIndexById(_, _, _)
findIndexById(c, id, i) ==
    IF i > Len(c) THEN 0
    ELSE IF c[i].id = id THEN i
    ELSE findIndexById(c, id, i + 1)

\* assignCalls that marks the call assigned without handing its floor to the elevator
assignCalls_noRequest(w) ==
    IF w.elev.targetFloor # NoFloor THEN w
    ELSE LET pend == pendingIdx(w.calls, 1) IN
    IF Len(pend) = 0 THEN w
    ELSE [w EXCEPT !.calls[pend[1]].status = "assigned"]

assignCalls(w) ==
    IF w.elev.targetFloor # NoFloor THEN w
    ELSE LET pend == pendingIdx(w.calls, 1) IN
    IF Len(pend) = 0 THEN w
    ELSE LET cur == metersToFloor(w.elev, w.elev.position)
             pendFloors == [k \in 1..Len(pend) |-> w.calls[pend[k]].floor]
             chosen == w.calls[pend[NearestIdx(pendFloors, cur, 1, 1, 0 - 1)]]
             idxAll == findIndexById(w.calls, chosen.id, 1)
             c1 == IF idxAll >= 1 THEN [w.calls EXCEPT ![idxAll].status = "assigned"]
                   ELSE w.calls
         IN [w EXCEPT !.calls = c1, !.elev = requestExternal(w.elev, chosen.floor)]

\* markCallServedAtFloor that stops at the first call it marks
markCallServedAtFloor_first(c, floor) ==
    [i \in 1..Len(c) |->
        IF c[i].floor = floor /\ isLive(c[i])
           /\ \A j \in 1..(i - 1) : ~(c[j].floor = floor /\ isLive(c[j]))
        THEN [c[i] EXCEPT !.status = "served"] ELSE c[i]]

markCallServedAtFloor(c, floor) ==
    [i \in 1..Len(c) |->
        IF c[i].floor = floor /\ isLive(c[i]) THEN [c[i] EXCEPT !.status = "served"] ELSE c[i]]

\* the lift:arrived listener of the bootstrap section
arrivedListener(w) ==
    IF w.elev.arrivalFloor # NoFloor
    THEN [w EXCEPT !.calls = markCallServedAtFloor(w.calls, w.elev.arrivalFloor)]
    ELSE w

boardingGate(e, t) ==
    /\ e.doorsOpen /\ e.doorProgress > DoorBoardThreshold
    /\ ~(t - e.lastDoorActionMs < e.doorCooldownMs)

\* stepBoarding that lets an NPC board whatever the load
stepBoarding_noLimit(w, t, rnd) ==
    LET e == w.elev IN
    IF ~boardingGate(e, t) THEN w
    ELSE
    LET liftFloor == metersToFloor(e, e.position)
        c1 == markCallServedAtFloor(w.calls, liftFloor)
        e1 == IF rnd.npcIn > 0
              THEN [requestFloor([e EXCEPT !.loadKg = e.loadKg + rnd.npcIn], rnd.npcFloor)
                    EXCEPT !.lastDoorActionMs = t]
              ELSE e
        e2 == IF rnd.npcOut > 0 /\ e1.loadKg > 0
              THEN [e1 EXCEPT !.loadKg = Max(0, e1.loadKg - Min(e1.loadKg, rnd.npcOut)),
                              !.lastDoorActionMs = t]
              ELSE e1
    IN [w EXCEPT !.calls = c1, !.elev = e2]

\* rnd.npcIn / rnd.npcOut: 0 when the Math.random() test fails, else the weight drawn;
\* rnd.npcFloor: the floor the boarding NPC requests
stepBoarding(w, t, rnd) ==
    LET e == w.elev IN
    IF ~boardingGate(e, t) THEN w
    ELSE
    LET liftFloor == metersToFloor(e, e.position)
        c1 == markCallServedAtFloor(w.calls, liftFloor)
        e1 == IF rnd.npcIn > 0
              THEN [(IF e.loadKg + rnd.npcIn < e.overloadLimitKg
                     THEN requestFloor([e EXCEPT !.loadKg = e.loadKg + rnd.npcIn], rnd.npcFloor)
                     ELSE e)
                    EXCEPT !.lastDoorActionMs = t]
              ELSE e
        e2 == IF rnd.npcOut > 0 /\ e1.loadKg > 0
              THEN [e1 EXCEPT !.loadKg = Max(0, e1.loadKg - Min(e1.loadKg, rnd.npcOut)),
                              !.lastDoorActionMs = t]
              ELSE e1
    IN [w EXCEPT !.calls = c1, !.elev = e2]

\* the window is restarted before the cap is tested
eventWindowAt(w, t) ==
    IF t - w.eventWindow.start > EventWindowMs
    THEN [w.eventWindow EXCEPT !.start = t, !.count = 0]
    ELSE w.eventWindow

shouldTriggerEventOk(w, t, draw) ==
    eventWindowAt(w, t).count < eventWindowAt(w, t).cap /\ draw

shouldTriggerEvent(w, t, draw) ==
    LET ew == eventWindowAt(w, t) IN
    IF shouldTriggerEventOk(w, t, draw)
    THEN [w EXCEPT !.eventWindow = [ew EXCEPT !.count = ew.count + 1]]
    ELSE [w EXCEPT !.eventWindow = ew]

handleEvent_jamKeepsDoor(w, type, comp, t, ch) ==
    IF type = "door_jam"
    THEN [w EXCEPT !.elev.door = Max(0, @ - ch.dec),
                   !.scheduled = Append(@, [ts |-> t + ch.delay, type |-> "auto_repair",
                                            comp |-> "door"])]
    ELSE IF type = "auto_repair" /\ comp = "door"
    THEN [w EXCEPT !.elev.door = clamp(@ + ch.amt, 0, 100)]
    ELSE w

\* ch: the random draws of one handled event
handleEvent(w, type, comp, t, ch) ==
    IF type = "door_jam"
    THEN LET e == w.elev
             e1 == [e EXCEPT !.door = Max(0, e.door - ch.dec)]
             e2 == IF ch.open
                   THEN [e1 EXCEPT !.doorsOpen = TRUE, !.doorProgress = DoorFull,
                                   !.state = "DOOR_OPEN"]
                   ELSE [e1 EXCEPT !.doorsOpen = FALSE, !.doorProgress = 0,
                                   !.state = "DOOR_CLOSED"]
         IN [w EXCEPT !.elev = e2,
                      !.scheduled = Append(@, [ts |-> t + ch.delay, type |-> "auto_repair",
                                               comp |-> "door"])]
    ELSE IF type = "auto_repair"
    THEN IF comp = "door"
         THEN [w EXCEPT !.elev.door = clamp(w.elev.door + ch.amt, 0, 100)]
         ELSE w
    ELSE w

\* the pass that handles a due event and leaves it in the list
RECURSIVE processScheduledFrom_noSplice(_, _, _, _)
processScheduledFrom_noSplice(w, i, t, chs) ==
    IF i < 1 THEN w
    ELSE IF t >= w.scheduled[i].ts
    THEN processScheduledFrom_noSplice(
             handleEvent(w, w.scheduled[i].type, w.scheduled[i].comp, t, chs[i]), i - 1, t, chs)
    ELSE processScheduledFrom_noSplice(w, i - 1, t, chs)

\* the pass runs from the end of the list to its start; chs[i] are the draws
\* of the event at index i
RECURSIVE processScheduledFrom(_, _, _, _)
processScheduledFrom(w, i, t, chs) ==
    IF i < 1 THEN w
    ELSE IF t >= w.scheduled[i].ts
    THEN LET ev == w.scheduled[i]
             w1 == [w EXCEPT !.scheduled = RemoveAt(@, i)]
         IN processScheduledFrom(handleEvent(w1, ev.type, ev.comp, t, chs[i]), i - 1, t, chs)
    ELSE processScheduledFrom(w, i - 1, t, chs)

processScheduled(w, t, chs) == processScheduledFrom(w, Len(w.scheduled), t, chs)

\* the random door_jam of World.step: rnd.trig is the draw inside
\* shouldTriggerEvent, rnd.sched the following Math.random() < 0.6
triggerRandomEvent(w, t, rnd) ==
    LET w1 == shouldTriggerEvent(w, t, rnd.trig) IN
    IF shouldTriggerEventOk(w, t, rnd.trig) /\ rnd.sched
    THEN [w1 EXCEPT !.scheduled = Append(@, [ts |-> t + rnd.jamDelay, type |-> "door_jam",
                                             comp |-> "none"])]
    ELSE w1

elevStepInWorld(w, t) ==
    LET r == step(w.elev, t)
        w1 == [w EXCEPT !.elev = r.e]
    IN IF r.arrived THEN arrivedListener(w1) ELSE w1

npcDue(n, t) == t >= n.nextActionMs /\ n.busyUntil = 0

\* nd[i]: the draws of NPC i when it is due: act (Math.random() < 0.28), the
\* floor and direction it calls, the random part r of the call id, the delays
\* busy, next (after a call) and idle
RECURSIVE stepNPCsFrom(_, _, _, _)
stepNPCsFrom(w, i, t, nd) ==
    IF i > Len(w.npcs) THEN w
    ELSE
    LET n == w.npcs[i]
        w1 == IF npcDue(n, t) /\ nd[i].act
              THEN requestExternalCall(w, nd[i].floor, nd[i].dir, n.id, t, nd[i].r)
              ELSE w
        n1 == IF npcDue(n, t)
              THEN IF nd[i].act
                   THEN [n EXCEPT !.busyUntil = t + nd[i].busy, !.nextActionMs = t + nd[i].next]
                   ELSE [n EXCEPT !.nextActionMs = t + nd[i].idle]
              ELSE n
        n2 == IF n1.busyUntil # 0 /\ t >= n1.busyUntil THEN [n1 EXCEPT !.busyUntil = 0] ELSE n1
    IN stepNPCsFrom([w1 EXCEPT !.npcs[i] = n2], i + 1, t, nd)

stepNPCs(w, t, nd) == stepNPCsFrom(w, 1, t, nd)

\* World.step with the dispatch and the elevator ahead of the timers and events
worldStep_dispatchFirst(w, t, rnd) ==
    LET w0 == assignCalls(w)
        w1 == elevStepInWorld(w0, t)
        w2 == stepBoarding(w1, t, rnd)
        w3 == stepNPCs(w2, t, rnd.npc)
        w4 == processScheduled(w3, t, rnd.chs)
    IN triggerRandomEvent(w4, t, rnd)

\* World.step(dt), dt = 1/60 s
worldStep(w, t, rnd) ==
    LET w0 == stepNPCs(w, t, rnd.npc)
        w1 == processScheduled(w0, t, rnd.chs)
        w2 == triggerRandomEvent(w1, t, rnd)
        w3 == elevStepInWorld(w2, t)
        w4 == stepBoarding(w3, t, rnd)
    IN assignCalls(w4)

-----------------------------------------------------------------------------
(* The frame loop.  All World.step calls of one frame read the same clock    *)
(* value; quietRnd are the draws of a step in which no random event, NPC     *)
(* turn or NPC boarding happens.                                             *)

quietRnd == [trig |-> FALSE, sched |-> FALSE, jamDelay |-> 0,
             npcIn |-> 0, npcFloor |-> 0, npcOut |-> 0, chs |-> <<>>, npc |-> <<>>]

\* one pass of the loop body over st, the world with the loop's two variables
frameBody(st, t) ==
    [world |-> worldStep(st.world, t, quietRnd),
     accumulator |-> st.accumulator - StepThirds,
     steps |-> st.steps + 1]

\* the while loop without the cap on the steps
RECURSIVE frameLoop_noCap(_, _)
frameLoop_noCap(st, t) ==
    IF st.accumulator >= StepThirds
    THEN frameLoop_noCap(frameBody(st, t), t)
    ELSE st

\* while (accumulator >= STEP_MS && steps < 8) { world.step(STEP_MS / 1000); ... }
RECURSIVE frameLoop(_, _)
frameLoop(st, t) ==
    IF st.accumulator >= StepThirds /\ st.steps < MaxStepsPerFrame
    THEN frameLoop(frameBody(st, t), t)
    ELSE st

\* frame(now): t is the time of the animation frame
frameEnd(st, t) ==
    [world |-> st.world,
     loop |-> [lastRAF |-> t, accumulator |-> st.accumulator, steps |-> st.steps]]

frame(w, lp, t) ==
    frameEnd(frameLoop([world |-> w,
                        accumulator |-> lp.accumulator
                                        + Min(FrameDeltaCapMs, t - lp.lastRAF) * 3,
                        steps |-> 0], t), t)

-----------------------------------------------------------------------------
(* Persistence.  A snapshot is the object written by serialize; has is the   *)
(* set of its keys that hold a value (a key that is absent or null is not in *)
(* has: ?? and || treat both alike).                                         *)

ElevatorKeys == {"pos", "vel", "acc", "target", "queue", "doorsOpen", "doorProg", "loadKg",
                 "playerInside", "components", "state", "arrivalFloor",
                 "_lastManualActionKey", "_lastManualActionTs", "autoCloseMs"}
WorldKeys == {"elev", "calls", "scheduled", "npcs"}

\* target and arrivalFloor are null when unset, _lastManualActionKey too
hasValue(e) ==
    ElevatorKeys \ ((IF e.targetFloor = NoFloor THEN {"target"} ELSE {}) \cup
                    (IF e.arrivalFloor = NoFloor THEN {"arrivalFloor"} ELSE {}) \cup
                    (IF e.lastManualActionKey = NoKey THEN {"_lastManualActionKey"} ELSE {}))

elevSerialize(e) ==
    [ has |-> hasValue(e),
      pos |-> e.position, vel |-> e.velocity, acc |-> e.acceleration,
      target |-> e.targetFloor, queue |-> e.queue,
      doorsOpen |-> e.doorsOpen, doorProg |-> e.doorProgress,
      loadKg |-> e.loadKg, playerInside |-> e.playerInside,
      components |-> e.door, state |-> e.state, arrivalFloor |-> e.arrivalFloor,
      lastManualActionKey |-> e.lastManualActionKey,
      lastManualActionTs |-> e.lastManualActionTs,
      autoCloseMs |-> e.autoCloseMs ]

\* Elevator.deserialize that forgets the queue
elevDeserialize_noQueue(obj, e0) ==
    [e0 EXCEPT !.position = IF "pos" \in obj.has THEN obj.pos ELSE @,
               !.targetFloor = IF "target" \in obj.has THEN obj.target ELSE NoFloor,
               !.doorsOpen = "doorsOpen" \in obj.has /\ obj.doorsOpen,
               !.doorProgress = IF "doorProg" \in obj.has THEN obj.doorProg ELSE 0,
               !.loadKg = IF "loadKg" \in obj.has THEN obj.loadKg ELSE 0,
               !.playerInside = "playerInside" \in obj.has /\ obj.playerInside]

\* e0 is the new Elevator(floors, initial) the values are written into; a value
\* that is there is taken as it is
elevDeserialize(obj, e0) ==
    [e0 EXCEPT !.position = IF "pos" \in obj.has THEN obj.pos ELSE @,
               !.velocity = IF "vel" \in obj.has THEN obj.vel ELSE 0,
               !.acceleration = IF "acc" \in obj.has THEN obj.acc ELSE 0,
               !.targetFloor = IF "target" \in obj.has THEN obj.target ELSE NoFloor,
               !.queue = IF "queue" \in obj.has THEN obj.queue ELSE <<>>,
               !.doorsOpen = "doorsOpen" \in obj.has /\ obj.doorsOpen,
               !.doorProgress = IF "doorProg" \in obj.has THEN obj.doorProg ELSE 0,
               !.loadKg = IF "loadKg" \in obj.has THEN obj.loadKg ELSE 0,
               !.playerInside = "playerInside" \in obj.has /\ obj.playerInside,
               !.door = IF "components" \in obj.has THEN obj.components ELSE @,
               !.state = IF "state" \in obj.has THEN obj.state ELSE @,
               !.arrivalFloor = IF "arrivalFloor" \in obj.has THEN obj.arrivalFloor ELSE NoFloor,
               !.lastManualActionKey =
                   IF "_lastManualActionKey" \in obj.has THEN obj.lastManualActionKey ELSE NoKey,
               !.lastManualActionTs =
                   IF "_lastManualActionTs" \in obj.has THEN obj.lastManualActionTs ELSE 0,
               !.autoCloseMs = IF "autoCloseMs" \in obj.has THEN obj.autoCloseMs
                               ELSE DoorAutoCloseMs]

worldSerialize(w, t) ==
    [ has |-> WorldKeys,
      elev |-> elevSerialize(w.elev),
      calls |-> w.calls,
      scheduled |-> w.scheduled,
      npcs |-> w.npcs,
      ts |-> t ]

\* fresh is the new World() the values are written into; d is the draw
\* rand(10000, 60000) for an NPC without nextActionMs
worldDeserialize(obj, fresh, t, d) ==
    [fresh EXCEPT
        !.elev = IF "elev" \in obj.has THEN elevDeserialize(obj.elev, fresh.elev) ELSE @,
        !.calls = IF "calls" \in obj.has THEN obj.calls ELSE <<>>,
        !.scheduled = IF "scheduled" \in obj.has THEN obj.scheduled ELSE <<>>,
        !.npcs = IF "npcs" \in obj.has
                 THEN [i \in 1..Len(obj.npcs) |->
                          [id |-> obj.npcs[i].id,
                           nextActionMs |-> IF obj.npcs[i].nextActionMs # 0
                                            THEN obj.npcs[i].nextActionMs ELSE t + d,
                           busyUntil |-> obj.npcs[i].busyUntil]]
                 ELSE @]

-----------------------------------------------------------------------------
(* Bounds of the exploration and the sets the random draws are taken from *)

Epoch0 == 100000          \* the wall clock at construction (Date.now() is far from 0)
ClockStep == 450          \* grain of the wall clock where cooldowns are observed
SmallFloors == 3          \* floors of the small building
SmallFloorHeight == 2000  \* its floor height, 0.2 m
MaxCalls == 2             \* playerCall invocations of the scenario
MaxScheduled == 1         \* scheduled events waiting when the random trigger may add one

Dirs == {"up", "down"}
CallRands == {0, 1}               \* Math.round(Math.random() * 9999) of a call id
NpcInWeights == {50, 139}         \* 50 + Math.random() * 90
NpcOutWeights == {20, 99}         \* 20 + Math.random() * 80
JamDelays == {2000, 20000}        \* secToMs(rand(2, 20))
EvChoices == [dec : {6, 18},      \* Math.round(rand(6, 18))
              open : BOOLEAN,     \* Math.random() < 0.5
              delay : {12000, 40000},  \* secToMs(rand(12, 40))
              amt : {12, 40}]     \* Math.round(rand(12, 40))
NpcFirstDelays == {20000}         \* rand(20_000, 90_000) of initNPCs
NpcBusyDelays == {20000}          \* rand(20_000, 90_000) after a call
NpcNextDelays == {40000}          \* rand(40_000, 160_000) after a call
NpcIdleDelays == {25000}          \* rand(25_000, 120_000) after a turn without a call
NpcReloadDelays == {10000}        \* rand(10000, 60000) of World.deserialize
FrameGaps == {17, 200, 1000}      \* ms between two animation frames
FrameHorizon == 1200              \* frames arrive this long after construction
Weights == {20, PassengerWeightKg}
InitLoads == {0, OverloadLimitKg - 10}

\* budget.live: the run keeps the parity of its World.step calls in last.tick, so
\* that every call of World.step is a step of the behaviour
NoBudget == [door |-> 0, board |-> 0, clock |-> 0, req |-> 0, call |-> 0, trig |-> 0,
             churn |-> 0, npc |-> 0, reload |-> 0, live |-> FALSE]
NoLast == [op |-> "none", arg |-> 0, ok |-> FALSE, board |-> "none", boardAt |-> 0, tick |-> 0,
           doorMark |-> 0, trigs |-> <<>>]

\* the history after a command: board / boardAt keep the kind and the time of
\* the last successful enter or exit
\* doorMark: while the doors are open, the time they became open or the time of
\* the last door command since; 0 while they are closed
doorMarkAfter(op) ==
    IF ~elev'.doorsOpen THEN 0
    ELSE IF ~elev.doorsOpen \/ op \in {"openDoors", "closeDoors"} THEN now
    ELSE last.doorMark

\* trigs: the times at which shouldTriggerEvent returned true, the last
\* EventWindowMs of them
recentTrigs(ts, t) == SelectSeq(ts, LAMBDA x : t - x < EventWindowMs)

Cmd(op, arg, ok) ==
    [op |-> op, arg |-> arg, ok |-> ok, board |-> last.board, boardAt |-> last.boardAt,
     tick |-> last.tick, doorMark |-> doorMarkAfter(op), trigs |-> last.trigs]

BoardCmd(op, arg, ok, kind) ==
    [op |-> op, arg |-> arg, ok |-> ok,
     board |-> IF ok THEN kind ELSE last.board,
     boardAt |-> IF ok THEN now ELSE last.boardAt,
     tick |-> last.tick, doorMark |-> doorMarkAfter(op), trigs |-> last.trigs]

-----------------------------------------------------------------------------
(* Actions: one per command, handler or timer *)

SetWorld(w) ==
    /\ elev' = w.elev
    /\ calls' = w.calls
    /\ scheduled' = w.scheduled
    /\ eventWindow' = w.eventWindow
    /\ lastPlayerCall' = w.lastPlayerCall
    /\ npcs' = w.npcs

\* the world and the loop variables after a frame
SetFrame(r) ==
    /\ SetWorld(r.world)
    /\ loop' = r.loop

worldRest == <<calls, scheduled, eventWindow, lastPlayerCall, npcs, loop>>

\* the draws World.step may make in the current state
DueIdx(t) == {i \in 1..Len(scheduled) : t >= scheduled[i].ts}

\* a door_jam draws dec, open and delay, an auto_repair draws amt; the fields
\* an event does not draw are held at one value
EvChoicesOf(ev) ==
    IF ev.type = "door_jam" THEN {ch \in EvChoices : ch.amt = 12}
    ELSE {ch \in EvChoices : ch.dec = 6 /\ ~ch.open /\ ch.delay = 12000}

DueChoices(t) ==
    {chs \in [DueIdx(t) -> EvChoices] : \A i \in DueIdx(t) : chs[i] \in EvChoicesOf(scheduled[i])}

TrigDraws ==
    {[trig |-> FALSE, sched |-> FALSE, jamDelay |-> 0]} \cup
    (IF budget.trig > 0 /\ Len(scheduled) < MaxScheduled
     THEN {[trig |-> TRUE, sched |-> s, jamDelay |-> d] : s \in BOOLEAN, d \in JamDelays}
     ELSE {})

\* the NPCs whose turn has come, and the draws of one of them
DueNpcs(t) == {i \in 1..Len(npcs) : npcDue(npcs[i], t)}

NpcDraws ==
    {[act |-> FALSE, floor |-> 0, dir |-> "up", r |-> 0, busy |-> 0, next |-> 0, idle |-> d] :
        d \in NpcIdleDelays} \cup
    {[act |-> TRUE, floor |-> f, dir |-> dir, r |-> r, busy |-> b, next |-> n, idle |-> 0] :
        f \in 0..(elev.floors - 1), dir \in Dirs, r \in CallRands,
        b \in NpcBusyDelays, n \in NpcNextDelays}

ChurnDraws ==
    {[npcIn |-> 0, npcFloor |-> 0, npcOut |-> 0]} \cup
    (IF budget.churn > 0
     THEN {[npcIn |-> i, npcFloor |-> f, npcOut |-> o] :
              i \in {0} \cup NpcInWeights, f \in 0..(elev.floors - 1),
              o \in {0} \cup NpcOutWeights}
     ELSE {})

\* one frame-loop call of World.step
Tick ==
    \E td \in TrigDraws, cd \in ChurnDraws, chs \in DueChoices(now),
       nd \in [DueNpcs(now) -> NpcDraws] :
        LET rnd == [trig |-> td.trig, sched |-> td.sched, jamDelay |-> td.jamDelay,
                    npcIn |-> cd.npcIn, npcFloor |-> cd.npcFloor, npcOut |-> cd.npcOut,
                    chs |-> chs, npc |-> nd]
            acting == Cardinality({i \in DueNpcs(now) : nd[i].act})
            w1 == processScheduled(stepNPCs(CurWorld, now, nd), now, chs)
            w3 == elevStepInWorld(triggerRandomEvent(w1, now, rnd), now)
            churned == boardingGate(w3.elev, now) /\ (cd.npcIn > 0 \/ cd.npcOut > 0)
            triggered == shouldTriggerEventOk(w1, now, td.trig)
        IN /\ (cd.npcIn > 0 \/ cd.npcOut > 0) => churned
           /\ td.trig => triggered
           /\ acting <= budget.npc
           /\ SetWorld(worldStep(CurWorld, now, rnd))
           /\ UNCHANGED loop
           /\ budget' = [budget EXCEPT !.churn = IF churned THEN @ - 1 ELSE @,
                                       !.trig = IF triggered THEN @ - 1 ELSE @,
                                       !.npc = @ - acting]
           /\ last' = [Cmd("step", 0, step(triggerRandomEvent(w1, now, rnd).elev, now).arrived)
                        EXCEPT !.tick = IF budget.live THEN 1 - @ ELSE @,
                               !.trigs = IF triggered THEN Append(recentTrigs(@, now), now)
                                         ELSE @]
           /\ UNCHANGED now

OpenDoors ==
    /\ budget.door > 0
    /\ elev' = openDoors(elev, now)
    /\ last' = Cmd("openDoors", 0, openDoorsOk(elev))
    /\ budget' = [budget EXCEPT !.door = @ - 1]
    /\ UNCHANGED <<worldRest, now>>

CloseDoors ==
    /\ budget.door > 0
    /\ elev' = closeDoors(elev)
    /\ last' = Cmd("closeDoors", 0, closeDoorsOk(elev))
    /\ budget' = [budget EXCEPT !.door = @ - 1]
    /\ UNCHANGED <<worldRest, now>>

\* the setTimeout callback of openDoors, once its delay has passed
AutoCloseFire ==
    /\ elev.autoCloseTimer # NoTimer
    /\ now >= elev.autoCloseTimer
    /\ elev' = [autoCloseCallback(elev) EXCEPT !.autoCloseTimer = NoTimer]
    /\ last' = Cmd("autoClose", 0, elev.doorsOpen /\ closeDoorsOk(elev))
    /\ UNCHANGED <<worldRest, now, budget>>

EnterPlayer ==
    \E weight \in Weights :
        /\ budget.board > 0
        /\ elev' = enterPlayer(elev, weight, now)
        /\ last' = BoardCmd("enterPlayer", weight, enterPlayerOk(elev, weight, now), "enter")
        /\ budget' = [budget EXCEPT !.board = IF enterPlayerOk(elev, weight, now) THEN @ - 1 ELSE @]
        /\ UNCHANGED <<worldRest, now>>

ExitPlayer ==
    \E weight \in Weights :
        /\ budget.board > 0
        /\ elev' = exitPlayer(elev, weight, now)
        /\ last' = BoardCmd("exitPlayer", weight, exitPlayerOk(elev, weight, now), "exit")
        /\ budget' = [budget EXCEPT !.board = IF exitPlayerOk(elev, weight, now) THEN @ - 1 ELSE @]
        /\ UNCHANGED <<worldRest, now>>

\* the action panel shows its buttons while the doors are open past 0.98
actionPanelShown == elev.doorsOpen /\ elev.doorProgress > DoorBoardThreshold

manualKey(kind) == <<kind, metersToFloor(elev, elev.position), elev.arrivalTs \div 1000>>

\* click on "Masuk"
TryEnterOnce ==
    LET ok == tryEnterOnceOk(elev, manualKey("manualEnter"), PassengerWeightKg, now) IN
    /\ budget.board > 0
    /\ actionPanelShown /\ ~elev.playerInside
    /\ elev' = tryEnterOnce(elev, manualKey("manualEnter"), PassengerWeightKg, now)
    /\ last' = BoardCmd("tryEnterOnce", PassengerWeightKg, ok, "enter")
    /\ budget' = [budget EXCEPT !.board = IF ok THEN @ - 1 ELSE @]
    /\ UNCHANGED <<worldRest, now>>

\* click on "Keluar"
TryExitOnce ==
    LET ok == tryExitOnceOk(elev, manualKey("manualExit"), PassengerWeightKg, now) IN
    /\ budget.board > 0
    /\ actionPanelShown /\ elev.playerInside
    /\ elev' = tryExitOnce(elev, manualKey("manualExit"), PassengerWeightKg, now)
    /\ last' = BoardCmd("tryExitOnce", PassengerWeightKg, ok, "exit")
    /\ budget' = [budget EXCEPT !.board = IF ok THEN @ - 1 ELSE @]
    /\ UNCHANGED <<worldRest, now>>

\* keypad button, or any caller of Elevator.requestFloor
RequestFloor ==
    \E f \in (0 - 1)..elev.floors :
        /\ budget.req > 0
        /\ elev' = requestFloor(elev, f)
        /\ last' = Cmd("requestFloor", f, TRUE)
        /\ budget' = [budget EXCEPT !.req = @ - 1]
        /\ UNCHANGED <<worldRest, now>>

\* World.playerCall(f, dir) for a floor of Fs and a direction of Ds
PlayerCallAt(Fs, Ds) ==
    \E f \in Fs, dir \in Ds, r \in CallRands :
        /\ budget.call > 0
        /\ SetWorld(playerCall(CurWorld, f, dir, now, r))
        /\ UNCHANGED loop
        /\ last' = Cmd("playerCall", f, playerCallOk(CurWorld, f, dir, now))
        /\ budget' = [budget EXCEPT !.call = @ - 1]
        /\ UNCHANGED now

PlayerCall == PlayerCallAt(0..(elev.floors - 1), Dirs)

\* World.requestExternalCall(f, dir, who) for a requester of Ws
RequestExternalCallAt(Fs, Ds, Ws) ==
    \E f \in Fs, dir \in Ds, who \in Ws, r \in CallRands :
        /\ budget.call > 0
        /\ SetWorld(requestExternalCall(CurWorld, f, dir, who, now, r))
        /\ UNCHANGED loop
        /\ last' = Cmd("requestExternalCall", f,
                       Len(requestExternalCall(CurWorld, f, dir, who, now, r).calls) > Len(calls))
        /\ budget' = [budget EXCEPT !.call = @ - 1]
        /\ UNCHANGED now

\* the page is reloaded right after saveNow: the bootstrap builds the world
\* from the snapshot; less than 2 s have passed, nothing is fast-forwarded
Reload ==
    \E d \in NpcReloadDelays :
        /\ budget.reload > 0
        /\ SetWorld(worldDeserialize(worldSerialize(CurWorld, now),
                                     NewWorld(elev.floors, elev.floorHeight, 0, now), now, d))
        /\ loop' = NewLoop(now)
        /\ last' = Cmd("reload", 0, TRUE)
        /\ budget' = [budget EXCEPT !.reload = @ - 1]
        /\ UNCHANGED now

\* an animation frame arrives gap milliseconds after the previous one
Frame ==
    \E gap \in FrameGaps :
        /\ now + gap <= Epoch0 + FrameHorizon
        /\ DueIdx(now + gap) = {} /\ DueNpcs(now + gap) = {}
        /\ now' = now + gap
        /\ SetFrame(frame(CurWorld, loop, now + gap))
        /\ last' = Cmd("frame", gap, TRUE)
        /\ UNCHANGED budget

\* wall-clock time passes between two handlers
ClockTick ==
    /\ budget.clock > 0
    /\ now' = now + ClockStep
    /\ UNCHANGED <<elev, worldRest>>
    /\ last' = Cmd("clock", 0, TRUE)
    /\ budget' = [budget EXCEPT !.clock = @ - 1]

\* the instants something is waiting for: the auto-close timer, the scheduled
\* events, the NPCs' next turns
Deadlines ==
    (IF elev.autoCloseTimer # NoTimer THEN {elev.autoCloseTimer} ELSE {}) \cup
    {scheduled[i].ts : i \in 1..Len(scheduled)} \cup
    {npcs[i].nextActionMs : i \in 1..Len(npcs)} \cup
    {npcs[i].busyUntil : i \in 1..Len(npcs)}

\* wall-clock time passes until the next of them
ClockToDeadline ==
    \E d \in Deadlines :
        /\ d > now
        /\ \A d2 \in Deadlines : d2 > now => d <= d2
        /\ now' = d
        /\ UNCHANGED <<elev, worldRest, budget>>
        /\ last' = Cmd("clock", 0, TRUE)

-----------------------------------------------------------------------------
(* SpecBoard: boarding and leaving at an open door.  The cabin stands at    *)
(* floor 0; the load left by earlier NPC traffic is drawn from InitLoads.   *)

InitBoard ==
    \E l \in InitLoads :
        /\ elev = [NewElevator(SmallFloors, SmallFloorHeight, 0) EXCEPT !.loadKg = l]
        /\ calls = <<>>
        /\ scheduled = <<>>
        /\ eventWindow = [start |-> Epoch0, count |-> 0, cap |-> EventCap]
        /\ lastPlayerCall = [floor |-> NoFloor, dir |-> "none", ts |-> 0]
        /\ npcs = <<>>
        /\ loop = NewLoop(Epoch0)
        /\ now = Epoch0
        /\ last = NoLast
        /\ budget = [NoBudget EXCEPT !.door = 2, !.board = 3, !.clock = 4]

NextBoard ==
    \/ Tick
    \/ OpenDoors
    \/ CloseDoors
    \/ EnterPlayer
    \/ ExitPlayer
    \/ TryEnterOnce
    \/ TryExitOnce
    \/ ClockTick

SpecBoard == InitBoard /\ [][NextBoard]_vars

-----------------------------------------------------------------------------
(* SpecScenario: the default building (18 floors of 3.0 m), a fresh World,   *)
(* the call playerCall(5, "up"), no random mechanical event and no NPC       *)
(* boarding.                                                                 *)

ScenarioFloor == 5

InitScenario ==
    /\ elev = NewElevator(DefaultFloors, DefaultFloorHeight, 0)
    /\ calls = <<>>
    /\ scheduled = <<>>
    /\ eventWindow = [start |-> Epoch0, count |-> 0, cap |-> EventCap]
    /\ lastPlayerCall = [floor |-> NoFloor, dir |-> "none", ts |-> 0]
    /\ npcs = <<>>
    /\ loop = NewLoop(Epoch0)
    /\ now = Epoch0
    /\ last = NoLast
    /\ budget = [NoBudget EXCEPT !.call = MaxCalls, !.live = TRUE]

ScenarioCall == PlayerCallAt({ScenarioFloor}, {"up"})

NextScenario ==
    \/ ScenarioCall
    \/ Tick
    \/ AutoCloseFire
    \/ ClockToDeadline

\* The frame loop keeps calling World.step, timers fire, the clock advances.
\* With budget.live every Tick changes last.tick, so Tick is always enabled and
\* weak fairness of Tick is []<><<Tick>>_vars.
FairTick == []<><<Tick>>_vars

FairScenario ==
    /\ FairTick
    /\ WF_vars(AutoCloseFire)
    /\ WF_vars(ClockToDeadline)

SpecScenario == InitScenario /\ [][NextScenario]_vars /\ FairScenario

-----------------------------------------------------------------------------
(* SpecRequest: floor requests served by the elevator alone.  A small        *)
(* building, a few requestFloor calls at any moment (also below floor 0 and  *)
(* above the top floor), the auto-close timer; no door command, no call, no  *)
(* mechanical event, no NPC boarding.                                        *)

InitSmall(b) ==
    /\ elev = NewElevator(SmallFloors, SmallFloorHeight, 0)
    /\ calls = <<>>
    /\ scheduled = <<>>
    /\ eventWindow = [start |-> Epoch0, count |-> 0, cap |-> EventCap]
    /\ lastPlayerCall = [floor |-> NoFloor, dir |-> "none", ts |-> 0]
    /\ npcs = <<>>
    /\ loop = NewLoop(Epoch0)
    /\ now = Epoch0
    /\ last = NoLast
    /\ budget = b

MaxRequests == 2

InitRequest ==
    InitSmall([NoBudget EXCEPT !.req = MaxRequests, !.live = TRUE])

NextRequest ==
    \/ RequestFloor
    \/ Tick
    \/ AutoCloseFire
    \/ ClockToDeadline

FairRequest ==
    /\ FairTick
    /\ WF_vars(AutoCloseFire)
    /\ WF_vars(ClockToDeadline)

SpecRequest == InitRequest /\ [][NextRequest]_vars /\ FairRequest

-----------------------------------------------------------------------------
(* SpecQueue: requests and calls in the small building: up to two requests   *)
(* before the first tick, then requests and calls at any moment; the         *)
(* dispatch of World.step hands calls to the elevator.  No door command, no  *)
(* mechanical event, no NPC boarding.                                        *)

QueueRequests == 1        \* requestFloor calls made after the first tick
QueueCalls == 1           \* playerCall invocations

\* the requests made before the first tick: none, one or two
EarlyRequests == {<<>>} \cup {<<a>> : a \in 0..(SmallFloors - 1)}
                 \cup {<<a, b>> : a \in 0..(SmallFloors - 1), b \in 0..(SmallFloors - 1)}

RECURSIVE requestAll(_, _)
requestAll(e, fs) ==
    IF Len(fs) = 0 THEN e ELSE requestAll(requestFloor(e, Head(fs)), Tail(fs))

InitQueue ==
    \E fs \in EarlyRequests :
        /\ elev = requestAll(NewElevator(SmallFloors, SmallFloorHeight, 0), fs)
        /\ calls = <<>>
        /\ scheduled = <<>>
        /\ eventWindow = [start |-> Epoch0, count |-> 0, cap |-> EventCap]
        /\ lastPlayerCall = [floor |-> NoFloor, dir |-> "none", ts |-> 0]
        /\ npcs = <<>>
        /\ loop = NewLoop(Epoch0)
        /\ now = Epoch0
        /\ last = NoLast
        /\ budget = [NoBudget EXCEPT !.req = QueueRequests, !.call = QueueCalls]

\* the frame loop keeps pace with the clock: the doors (under a second to open)
\* stand fully open long before the ten seconds of the auto-close timer are over
ClockAfterDoors ==
    /\ elev.doorProgress = DoorFull
    /\ ClockToDeadline

\* a hall call "up" from any floor
QueueCall == PlayerCallAt(0..(SmallFloors - 1), {"up"})

NextQueue ==
    \/ RequestFloor
    \/ QueueCall
    \/ Tick
    \/ AutoCloseFire
    \/ ClockAfterDoors

SpecQueue == InitQueue /\ [][NextQueue]_vars

-----------------------------------------------------------------------------
(* SpecDoor: the door buttons during travel in the small building: one       *)
(* request, door commands at any moment, the auto-close timer.               *)

DoorCommands == 2         \* presses of the door buttons
DoorRequests == 1         \* requestFloor calls

InitDoor == InitSmall([NoBudget EXCEPT !.req = DoorRequests, !.door = DoorCommands])

NextDoor ==
    \/ RequestFloor
    \/ OpenDoors
    \/ CloseDoors
    \/ Tick
    \/ AutoCloseFire
    \/ ClockAfterDoors

SpecDoor == InitDoor /\ [][NextDoor]_vars

-----------------------------------------------------------------------------
(* SpecCalls: hall calls submitted by the passenger and on behalf of NPCs in  *)
(* the small building, configured (npcTrafficFactor) to hold NpcPopulation    *)
(* NPCs; the dispatch and the arrivals move the calls through their statuses. *)

NpcPopulation == 2        \* NPCs created by initNPCs
Submissions == 3          \* playerCall and requestExternalCall invocations
CallsHorizon == 10000     \* wall-clock time covered, ms

InitNpcWorld(b) ==
    \E d \in NpcFirstDelays :
        /\ elev = NewElevator(SmallFloors, SmallFloorHeight, 0)
        /\ calls = <<>>
        /\ scheduled = <<>>
        /\ eventWindow = [start |-> Epoch0, count |-> 0, cap |-> EventCap]
        /\ lastPlayerCall = [floor |-> NoFloor, dir |-> "none", ts |-> 0]
        /\ npcs = initNPCs(NpcPopulation, Epoch0, d)
        /\ loop = NewLoop(Epoch0)
        /\ now = Epoch0
        /\ last = NoLast
        /\ budget = b

InitCalls == InitNpcWorld([NoBudget EXCEPT !.call = Submissions])

\* the cabin stands and the doors rest fully open or fully closed
AtRest ==
    /\ elev.velocity = 0
    /\ elev.doorProgress \in {0, DoorFull}

\* the calls come in one burst, before the frame loop runs World.step again
Burst == last.op \in {"none", "playerCall", "requestExternalCall"}

CallsPlayer == Burst /\ PlayerCallAt({1}, Dirs)

CallsExternal == Burst /\ RequestExternalCallAt({0, 2}, {"up"}, {NpcIds[1]})

\* time passes while the cabin rests, up to the horizon h
ClockAtRestWithin(h) ==
    /\ AtRest
    /\ now < Epoch0 + h
    /\ ClockToDeadline

ClockAtRest == ClockAtRestWithin(CallsHorizon)

NextCalls ==
    \/ CallsPlayer
    \/ CallsExternal
    \/ Tick
    \/ AutoCloseFire
    \/ ClockAtRest

SpecCalls == InitCalls /\ [][NextCalls]_vars

-----------------------------------------------------------------------------
(* SpecNpc: the NPCs of the small building (NpcPopulation of them) take their *)
(* turns in stepNPCs and call the lift on their own.                          *)

NpcCalls == 2             \* calls the NPCs make
NpcHorizon == 35000       \* wall-clock time covered, ms

InitNpc == InitNpcWorld([NoBudget EXCEPT !.npc = NpcCalls])

ClockNpc == ClockAtRestWithin(NpcHorizon)

NextNpc ==
    \/ Tick
    \/ AutoCloseFire
    \/ ClockNpc

SpecNpc == InitNpc /\ [][NextNpc]_vars

-----------------------------------------------------------------------------
(* SpecServe: one hall call in the small building and one press of a door    *)
(* button at any moment of the trip that serves it.                          *)

ServeCalls == 1           \* playerCall submissions
ServeCommands == 1        \* presses of the door buttons

InitServe == InitSmall([NoBudget EXCEPT !.call = ServeCalls, !.door = ServeCommands])

\* the call is made before the cabin has moved
ServeCall == last.op = "none" /\ PlayerCallAt(0..(SmallFloors - 1), Dirs)

NextServe ==
    \/ ServeCall
    \/ OpenDoors
    \/ CloseDoors
    \/ Tick
    \/ AutoCloseFire
    \/ ClockAfterDoors

SpecServe == InitServe /\ [][NextServe]_vars

-----------------------------------------------------------------------------
(* SpecJam: door jams and their repairs in the small building.  The cabin    *)
(* stands at floor 0; the door health left by earlier jams is drawn from     *)
(* InitHealths; the door buttons are pressed at any moment.                  *)

JamTriggers == 1          \* random events that pass shouldTriggerEvent
JamCommands == 1          \* presses of the door buttons
InitHealths == {100, 10}  \* components.door: new, and after five jams of 18

InitJam ==
    \E h \in InitHealths :
        /\ elev = [NewElevator(SmallFloors, SmallFloorHeight, 0) EXCEPT !.door = h]
        /\ calls = <<>>
        /\ scheduled = <<>>
        /\ eventWindow = [start |-> Epoch0, count |-> 0, cap |-> EventCap]
        /\ lastPlayerCall = [floor |-> NoFloor, dir |-> "none", ts |-> 0]
        /\ npcs = <<>>
        /\ loop = NewLoop(Epoch0)
        /\ now = Epoch0
        /\ last = NoLast
        /\ budget = [NoBudget EXCEPT !.trig = JamTriggers, !.door = JamCommands]

\* a timer whose delay has passed runs its callback before more time passes
TimerDue == elev.autoCloseTimer # NoTimer /\ now >= elev.autoCloseTimer

ClockJam == ~TimerDue /\ ClockToDeadline

NextJam ==
    \/ OpenDoors
    \/ CloseDoors
    \/ Tick
    \/ AutoCloseFire
    \/ ClockJam

SpecJam == InitJam /\ [][NextJam]_vars

-----------------------------------------------------------------------------
(* SpecReload: a reload of the page during a trip in the small building:     *)
(* keypad requests made at the start, a hall call, a passenger boarding, and *)
(* one save-and-reload at any moment.                                        *)

ReloadCalls == 1          \* playerCall submissions
ReloadBoardings == 1      \* successful enterPlayer calls
Reloads == 1              \* page reloads

InitReload ==
    \E fs \in EarlyRequests :
        /\ elev = requestAll(NewElevator(SmallFloors, SmallFloorHeight, 0), fs)
        /\ calls = <<>>
        /\ scheduled = <<>>
        /\ eventWindow = [start |-> Epoch0, count |-> 0, cap |-> EventCap]
        /\ lastPlayerCall = [floor |-> NoFloor, dir |-> "none", ts |-> 0]
        /\ npcs = <<>>
        /\ loop = NewLoop(Epoch0)
        /\ now = Epoch0
        /\ last = NoLast
        /\ budget = [NoBudget EXCEPT !.call = ReloadCalls, !.board = ReloadBoardings,
                                     !.reload = Reloads]

\* the call is made before the cabin has moved
ReloadCall == last.op = "none" /\ PlayerCallAt(0..(SmallFloors - 1), {"up"})

NextReload ==
    \/ ReloadCall
    \/ EnterPlayer
    \/ Reload
    \/ Tick
    \/ AutoCloseFire
    \/ ClockAfterDoors

SpecReload == InitReload /\ [][NextReload]_vars

-----------------------------------------------------------------------------
(* SpecSnapshot: the bootstrap finds a snapshot in the storage that          *)
(* serialize did not write as it is: keys are missing, numbers are out of    *)
(* range, the queue repeats a floor or holds the target.  The world built    *)
(* from it then runs.                                                        *)

SnapshotDrops == {"pos", "target", "queue", "doorProg"}   \* keys that may be missing
SnapshotDoorProgs == {0, DoorFull, 2 * DoorFull}          \* doorProg 0, 1 and 2
SnapshotTargets == {NoFloor, 1}
SnapshotQueues == {<<>>, <<2>>, <<2, 2>>, <<1, 2>>}
SnapshotPositions == {0, SmallFloorHeight}

ElevatorSnapshots ==
    {[elevSerialize(NewElevator(SmallFloors, SmallFloorHeight, 0))
        EXCEPT !.has = (ElevatorKeys \ drop) \ (IF t = NoFloor THEN {"target"} ELSE {}),
               !.pos = p, !.target = t, !.queue = q, !.doorProg = dp] :
        drop \in SUBSET SnapshotDrops, p \in SnapshotPositions, t \in SnapshotTargets,
        q \in SnapshotQueues, dp \in SnapshotDoorProgs}

Snapshots ==
    {[worldSerialize(NewWorld(SmallFloors, SmallFloorHeight, 0, Epoch0), Epoch0)
        EXCEPT !.has = h, !.elev = es] :
        h \in {WorldKeys, WorldKeys \ {"elev"}, WorldKeys \ {"calls"}},
        es \in ElevatorSnapshots}

Bootstrap(obj, t) ==
    worldDeserialize(obj, NewWorld(SmallFloors, SmallFloorHeight, 0, t), t, 0)

InitSnapshot ==
    \E obj \in Snapshots :
        /\ elev = Bootstrap(obj, Epoch0).elev
        /\ calls = Bootstrap(obj, Epoch0).calls
        /\ scheduled = Bootstrap(obj, Epoch0).scheduled
        /\ eventWindow = Bootstrap(obj, Epoch0).eventWindow
        /\ lastPlayerCall = Bootstrap(obj, Epoch0).lastPlayerCall
        /\ npcs = Bootstrap(obj, Epoch0).npcs
        /\ loop = NewLoop(Epoch0)
        /\ now = Epoch0
        /\ last = NoLast
        /\ budget = NoBudget

NextSnapshot ==
    \/ Tick
    \/ AutoCloseFire
    \/ ClockAfterDoors

SpecSnapshot == InitSnapshot /\ [][NextSnapshot]_vars

-----------------------------------------------------------------------------
(* SpecWindow: the random trigger over more than one event window.  The     *)
(* cabin stands idle; the clock moves in thirds of the window.               *)

WindowTriggers == 7       \* times shouldTriggerEvent returns true
WindowStep == 20000       \* clock step, a third of the event window
WindowHorizon == 80000    \* the clock stops this long after construction

InitWindow == InitSmall([NoBudget EXCEPT !.trig = WindowTriggers])

ClockWindow ==
    /\ now < Epoch0 + WindowHorizon
    /\ now' = now + WindowStep
    /\ UNCHANGED <<elev, worldRest, budget>>
    /\ last' = Cmd("clock", 0, TRUE)

\* no openDoors happens here, so no auto-close timer is ever armed
NextWindow ==
    \/ Tick
    \/ ClockWindow

SpecWindow == InitWindow /\ [][NextWindow]_vars

-----------------------------------------------------------------------------
(* SpecFrame: the frame loop drives the small building: animation frames at  *)
(* regular and at slow paces, one keypad request at any moment.              *)

FrameRequests == 1        \* requestFloor calls

InitFrame == InitSmall([NoBudget EXCEPT !.req = FrameRequests])

\* the frames end before an auto-close timer (10 s) can fire
NextFrame ==
    \/ RequestFloor
    \/ Frame

SpecFrame == InitFrame /\ [][NextFrame]_vars

-----------------------------------------------------------------------------
(* SpecSchedule: the scheduled list holds several events, left there by the  *)
(* random trigger in earlier steps with different delays; the clock moves    *)
(* from fire time to fire time.                                              *)

ScheduleTimes == {Epoch0 + 2000, Epoch0 + 4000}    \* fire times of the waiting events
ScheduleLength == 3                                \* events waiting at the start

ScheduleEvents ==
    {[ts |-> t, type |-> "door_jam", comp |-> "none"] : t \in ScheduleTimes} \cup
    {[ts |-> t, type |-> "auto_repair", comp |-> "door"] : t \in ScheduleTimes}

ScheduleLists == UNION {[1..n -> ScheduleEvents] : n \in 0..ScheduleLength}

InitSchedule ==
    \E sch \in ScheduleLists :
        /\ elev = NewElevator(SmallFloors, SmallFloorHeight, 0)
        /\ calls = <<>>
        /\ scheduled = sch
        /\ eventWindow = [start |-> Epoch0, count |-> 0, cap |-> EventCap]
        /\ lastPlayerCall = [floor |-> NoFloor, dir |-> "none", ts |-> 0]
        /\ npcs = <<>>
        /\ loop = NewLoop(Epoch0)
        /\ now = Epoch0
        /\ last = NoLast
        /\ budget = NoBudget

\* no openDoors happens here, so no auto-close timer is ever armed
NextSchedule ==
    \/ Tick
    \/ ClockToDeadline

SpecSchedule == InitSchedule /\ [][NextSchedule]_vars

-----------------------------------------------------------------------------
(* SpecEmergency: the world is restored from a snapshot whose elevator is in *)
(* state EMERGENCY (nothing in the program sets that state; it comes from    *)
(* outside), with requests pending; door buttons, keypad and steps follow.   *)

EmergencyCommands == 1    \* presses of the door buttons
EmergencyRequests == 1    \* requestFloor calls

InitEmergency ==
    \E fs \in EarlyRequests :
        /\ elev = elevDeserialize(
                      [elevSerialize(requestAll(NewElevator(SmallFloors, SmallFloorHeight, 0), fs))
                          EXCEPT !.state = "EMERGENCY"],
                      NewElevator(SmallFloors, SmallFloorHeight, 0))
        /\ calls = <<>>
        /\ scheduled = <<>>
        /\ eventWindow = [start |-> Epoch0, count |-> 0, cap |-> EventCap]
        /\ lastPlayerCall = [floor |-> NoFloor, dir |-> "none", ts |-> 0]
        /\ npcs = <<>>
        /\ loop = NewLoop(Epoch0)
        /\ now = Epoch0
        /\ last = NoLast
        /\ budget = [NoBudget EXCEPT !.door = EmergencyCommands, !.req = EmergencyRequests]

NextEmergency ==
    \/ RequestFloor
    \/ OpenDoors
    \/ CloseDoors
    \/ Tick
    \/ AutoCloseFire
    \/ ClockAfterDoors

SpecEmergency == InitEmergency /\ [][NextEmergency]_vars

-----------------------------------------------------------------------------
(* SpecCancel: door commands while door jams are waiting in the scheduled    *)
(* list: doors opened by openDoors or by a jam, closed by closeDoors, by a   *)
(* jam or by the auto-close timer.                                           *)

CancelCommands == 2       \* presses of the door buttons
CancelLength == 2         \* events waiting at the start
CancelHorizon == 14000    \* wall-clock time covered, ms

CancelLists == UNION {[1..n -> ScheduleEvents] : n \in 0..CancelLength}

InitCancel ==
    \E sch \in CancelLists :
        /\ elev = NewElevator(SmallFloors, SmallFloorHeight, 0)
        /\ calls = <<>>
        /\ scheduled = sch
        /\ eventWindow = [start |-> Epoch0, count |-> 0, cap |-> EventCap]
        /\ lastPlayerCall = [floor |-> NoFloor, dir |-> "none", ts |-> 0]
        /\ npcs = <<>>
        /\ loop = NewLoop(Epoch0)
        /\ now = Epoch0
        /\ last = NoLast
        /\ budget = [NoBudget EXCEPT !.door = CancelCommands]

\* the buttons are pressed when the doors are at rest
CancelOpen == elev.doorProgress \in {0, DoorFull} /\ OpenDoors

CancelClose == elev.doorProgress \in {0, DoorFull} /\ CloseDoors

CancelClock == ClockJam /\ now' <= Epoch0 + CancelHorizon

NextCancel ==
    \/ CancelOpen
    \/ CancelClose
    \/ Tick
    \/ AutoCloseFire
    \/ CancelClock

SpecCancel == InitCancel /\ [][NextCancel]_vars

-----------------------------------------------------------------------------
(* SpecSettle: hall calls made while open or opening doors hold the cabin in *)
(* the small building, the doors opened by the button or by an arrival.      *)

SettleCalls == 3          \* playerCall submissions
SettleCommands == 1       \* presses of the door-open button
SettleHorizon == 10000    \* wall-clock time covered, ms

InitSettle == InitSmall([NoBudget EXCEPT !.call = SettleCalls, !.door = SettleCommands])

SettleCall ==
    /\ elev.doorsOpen /\ elev.doorProgress > DoorStopThreshold
    /\ (PlayerCallAt({0}, Dirs) \/ PlayerCallAt({1}, {"up"}))

SettleOpen == AtRest /\ OpenDoors

SettleClock == now < Epoch0 + SettleHorizon /\ ClockAfterDoors

NextSettle ==
    \/ SettleCall
    \/ SettleOpen
    \/ Tick
    \/ AutoCloseFire
    \/ SettleClock

SpecSettle == InitSettle /\ [][NextSettle]_vars

-----------------------------------------------------------------------------
(* SpecOrder: a door jam waits in the scheduled list while the cabin serves  *)
(* early requests and one hall call in the small building; the jam comes due *)
(* at any moment of the trip; the door is sound or worn by earlier jams.     *)
(* The two seconds covered end before any auto-close timer.                  *)

OrderCalls == 1           \* playerCall submissions
OrderHorizon == 2000      \* wall-clock time covered, ms

InitOrder ==
    \E fs \in EarlyRequests, h \in InitHealths :
        /\ elev = requestAll([NewElevator(SmallFloors, SmallFloorHeight, 0) EXCEPT !.door = h], fs)
        /\ calls = <<>>
        /\ scheduled = <<[ts |-> Epoch0 + 2000, type |-> "door_jam", comp |-> "none"]>>
        /\ eventWindow = [start |-> Epoch0, count |-> 0, cap |-> EventCap]
        /\ lastPlayerCall = [floor |-> NoFloor, dir |-> "none", ts |-> 0]
        /\ npcs = <<>>
        /\ loop = NewLoop(Epoch0)
        /\ now = Epoch0
        /\ last = NoLast
        /\ budget = [NoBudget EXCEPT !.call = OrderCalls]

\* the call is made before the first step
OrderCall == last.op = "none" /\ PlayerCallAt(0..(SmallFloors - 1), {"up"})

OrderClock == ClockJam /\ now' <= Epoch0 + OrderHorizon

NextOrder ==
    \/ OrderCall
    \/ Tick
    \/ OrderClock

SpecOrder == InitOrder /\ [][NextOrder]_vars

-----------------------------------------------------------------------------
(* SpecLoad: the passenger and NPCs board and leave at the open door of the  *)
(* cabin standing at floor 0; the load left by earlier NPC traffic is drawn  *)
(* from InitLoads.                                                           *)

LoadChurns == 2           \* steps in which an NPC boards or leaves
LoadBoardings == 2        \* successful enterPlayer / exitPlayer calls
LoadClockTicks == 4       \* ClockStep advances of the wall clock

InitLoad ==
    \E l \in InitLoads :
        /\ elev = [NewElevator(SmallFloors, SmallFloorHeight, 0) EXCEPT !.loadKg = l]
        /\ calls = <<>>
        /\ scheduled = <<>>
        /\ eventWindow = [start |-> Epoch0, count |-> 0, cap |-> EventCap]
        /\ lastPlayerCall = [floor |-> NoFloor, dir |-> "none", ts |-> 0]
        /\ npcs = <<>>
        /\ loop = NewLoop(Epoch0)
        /\ now = Epoch0
        /\ last = NoLast
        /\ budget = [NoBudget EXCEPT !.door = 1, !.board = LoadBoardings,
                                     !.churn = LoadChurns, !.clock = LoadClockTicks]

\* the door button is pressed before anything else
LoadOpen == last.op = "none" /\ OpenDoors

\* the passenger boards and leaves with the configured weight
LoadEnter == EnterPlayer /\ last'.arg = PassengerWeightKg

LoadExit == ExitPlayer /\ last'.arg = PassengerWeightKg

NextLoad ==
    \/ LoadOpen
    \/ LoadEnter
    \/ LoadExit
    \/ Tick
    \/ ClockTick

SpecLoad == InitLoad /\ [][NextLoad]_vars

-----------------------------------------------------------------------------
(* SpecStuck: one door jam and its repair, then one hall call in the small   *)
(* building, under fair ticks and timers.  The jam waits in the scheduled    *)
(* list, put there by the random trigger of an earlier step.                 *)

StuckCalls == 1           \* playerCall submissions

InitStuck ==
    /\ elev = NewElevator(SmallFloors, SmallFloorHeight, 0)
    /\ calls = <<>>
    /\ scheduled = <<[ts |-> Epoch0 + 2000, type |-> "door_jam", comp |-> "none"]>>
    /\ eventWindow = [start |-> Epoch0, count |-> 1, cap |-> EventCap]
    /\ lastPlayerCall = [floor |-> NoFloor, dir |-> "none", ts |-> 0]
    /\ npcs = <<>>
    /\ loop = NewLoop(Epoch0)
    /\ now = Epoch0
    /\ last = NoLast
    /\ budget = [NoBudget EXCEPT !.call = StuckCalls, !.live = TRUE]

\* the call is made once the jam has happened
StuckCall ==
    /\ \A i \in 1..Len(scheduled) : scheduled[i].type # "door_jam"
    /\ PlayerCallAt(0..(SmallFloors - 1), {"up"})

NextStuck ==
    \/ StuckCall
    \/ Tick
    \/ AutoCloseFire
    \/ ClockJam

FairStuck ==
    /\ FairTick
    /\ WF_vars(AutoCloseFire)
    /\ WF_vars(ClockJam)

SpecStuck == InitStuck /\ [][NextStuck]_vars /\ FairStuck

-----------------------------------------------------------------------------
(* Claims on SpecBoard *)

BoardOps == {"enterPlayer", "exitPlayer", "tryEnterOnce", "tryExitOnce"}
EnterOps == {"enterPlayer", "tryEnterOnce"}
ExitOps == {"exitPlayer", "tryExitOnce"}

\* C8: enterPlayer(weight) called with loadKg + weight above overloadLimitKg
\* returns false and leaves loadKg, playerInside and lastDoorActionMs as they were.
C8_OverloadRefused ==
    [][(last'.op = "enterPlayer" /\ elev.loadKg + last'.arg > elev.overloadLimitKg)
        => /\ ~last'.ok
           /\ elev'.loadKg = elev.loadKg
           /\ elev'.playerInside = elev.playerInside
           /\ elev'.lastDoorActionMs = elev.lastDoorActionMs]_vars

\* load 1790, weight 20, every other condition of enterPlayer met: refused
C8_Witness ==
    /\ last.op = "enterPlayer" /\ last.arg = 20 /\ ~last.ok
    /\ elev.loadKg = OverloadLimitKg - 10
    /\ elev.doorsOpen /\ elev.doorProgress >= DoorReadyThreshold
    /\ ~elev.playerInside
    /\ now - elev.lastDoorActionMs >= elev.doorCooldownMs

\* C9: after a successful enter, every further enter fails and changes no load
\* until an exit succeeds; after a successful exit, every further exit fails and
\* changes no load until an enter succeeds; the time between the calls is free.
C9_SecondCallFails ==
    [][/\ (last.board = "enter" /\ last'.op \in EnterOps)
            => (~last'.ok /\ elev'.loadKg = elev.loadKg)
       /\ (last.board = "exit" /\ last'.op \in ExitOps)
            => (~last'.ok /\ elev'.loadKg = elev.loadKg)]_vars

\* a second enterPlayer refused for the one reason that the passenger is inside
C9_Witness ==
    /\ last.op = "enterPlayer" /\ ~last.ok /\ last.board = "enter"
    /\ elev.doorsOpen /\ elev.doorProgress >= DoorReadyThreshold
    /\ now - elev.lastDoorActionMs >= elev.doorCooldownMs
    /\ elev.loadKg + last.arg <= elev.overloadLimitKg
    /\ elev.playerInside

\* C10: an enter or exit succeeds only with doorsOpen, doorProgress >= 0.9 and
\* doorCooldownMs elapsed since lastDoorActionMs; a success stamps lastDoorActionMs
\* with the current time; an enter or exit tried less than doorCooldownMs after a
\* successful one fails.
C10_DoorGate ==
    [][/\ (last'.op \in BoardOps /\ last'.ok)
            => /\ elev.doorsOpen
               /\ elev.doorProgress >= DoorReadyThreshold
               /\ now - elev.lastDoorActionMs >= elev.doorCooldownMs
               /\ elev'.lastDoorActionMs = now
       /\ (last'.op \in BoardOps /\ last.board # "none"
             /\ now - last.boardAt < elev.doorCooldownMs)
            => ~last'.ok]_vars

\* an exit refused inside the cooldown window of the enter before it
C10_Witness ==
    /\ last.op = "exitPlayer" /\ ~last.ok /\ last.board = "enter"
    /\ now - last.boardAt < elev.doorCooldownMs
    /\ now > last.boardAt
    /\ elev.doorsOpen /\ elev.doorProgress >= DoorReadyThreshold
    /\ elev.playerInside

-----------------------------------------------------------------------------
(* Claims on SpecScenario *)

IdleAtGround ==
    /\ elev.state = "IDLE" /\ elev.position = 0 /\ elev.velocity = 0
    /\ ~elev.doorsOpen /\ elev.doorProgress = 0
    /\ elev.targetFloor = NoFloor /\ elev.queue = <<>>
    /\ scheduled = <<>>

CallWaiting(i) ==
    /\ i <= Len(calls)
    /\ calls[i].floor = ScenarioFloor /\ calls[i].dir = "up"
    /\ calls[i].who = "Passenger" /\ calls[i].status = "pending"

CallServedAtFloor(i) ==
    /\ i <= Len(calls)
    /\ calls[i].status = "served"
    /\ elev.arrivalFloor = ScenarioFloor
    /\ elev.doorsOpen

\* C1: with the cabin idle at floor 0, doors closed and nothing scheduled, the
\* World.step after an accepted playerCall(5, "up") sets targetFloor to 5, and
\* from there the run reaches arrivalFloor = 5 with the doors open and that call served.
C1_CallServed ==
    /\ [][(last'.op = "step" /\ IdleAtGround /\ \E i \in 1..MaxCalls : CallWaiting(i))
            => elev'.targetFloor = ScenarioFloor]_vars
    /\ \A i \in 1..MaxCalls :
          (IdleAtGround /\ CallWaiting(i)) ~> CallServedAtFloor(i)

\* the call has been served by the arrival at floor 5
C1_Witness ==
    /\ CallServedAtFloor(1)
    /\ elev.position = ScenarioFloor * DefaultFloorHeight
    /\ last.op = "step" /\ last.ok

-----------------------------------------------------------------------------
(* Claims on SpecRequest *)

Requested(f) == last.op = "requestFloor" /\ last.arg = f

RestingAt(f) ==
    /\ metersToFloor(elev, elev.position) = clamp(f, 0, elev.floors - 1)
    /\ elev.velocity = 0

\* C2: every requestFloor(f) is followed, once the inputs have stopped and the
\* ticks go on, by a state in which the derived floor is clamp(f, 0, floors-1)
\* and velocity is 0.
C2_RequestReached ==
    \A f \in (0 - 1)..SmallFloors : Requested(f) ~> RestingAt(f)

\* a queued request above the top floor has been reached by an arrival at the top floor
C2_Witness ==
    /\ last.op = "step" /\ last.ok
    /\ budget.req = 0
    /\ elev.arrivalFloor = elev.floors - 1
    /\ elev.position = floorToMeters(elev, elev.floors)
    /\ elev.velocity = 0 /\ elev.doorsOpen
    /\ elev.queue = <<>> /\ elev.targetFloor = NoFloor

-----------------------------------------------------------------------------
(* Claims on SpecCalls *)

CallOps == {"playerCall", "requestExternalCall"}

SameRequest(c, d) == c.floor = d.floor /\ c.dir = d.dir /\ c.who = d.who

StatusRank(st) == IF st = "pending" THEN 0 ELSE IF st = "assigned" THEN 1 ELSE 2

\* C13: no step of the program moves a call's status backwards: a served call
\* stays served, an assigned call never returns to pending.
C13_StatusForward ==
    [][\A i \in 1..Len(calls) :
          /\ i <= Len(calls')
          /\ StatusRank(calls'[i].status) >= StatusRank(calls[i].status)]_vars

\* the world on which the assignCalls of the next World.step acts, when that
\* step has no NPC turn, no due event and no random draw
beforeAssign ==
    IF DueNpcs(now) = {} /\ DueIdx(now) = {}
    THEN stepBoarding(elevStepInWorld(CurWorld, now), now, quietRnd)
    ELSE CurWorld

PendingCalls(w) == {i \in 1..Len(w.calls) : w.calls[i].status = "pending"}

CallDistance(w, i) == Abs(w.calls[i].floor - metersToFloor(w.elev, w.elev.position))

\* the nearest pending call, the earliest in the list among equals
NearestPendingCall(w) ==
    CHOOSE i \in PendingCalls(w) :
        \A j \in PendingCalls(w) :
            \/ CallDistance(w, i) < CallDistance(w, j)
            \/ CallDistance(w, i) = CallDistance(w, j) /\ i <= j

AssignedCorrectly(w) ==
    LET a == assignCalls(w) IN
    IF w.elev.targetFloor # NoFloor THEN a = w
    ELSE PendingCalls(w) # {} =>
         LET best == NearestPendingCall(w)
             f == w.calls[best].floor
         IN /\ a.calls = [w.calls EXCEPT ![best].status = "assigned"]
            /\ a.elev = IF Len(w.elev.queue) = 0 THEN [w.elev EXCEPT !.targetFloor = f]
                        ELSE IF InSeq(f, w.elev.queue) THEN w.elev
                        ELSE [w.elev EXCEPT !.queue = Append(@, f)]
            /\ a.scheduled = w.scheduled /\ a.npcs = w.npcs

\* C26: assignCalls changes nothing while the elevator has a target; otherwise,
\* when a call is pending, the nearest pending call (the earliest in the list
\* on a tie) and no other becomes assigned, and its floor becomes the target
\* or joins the queue unless it is already there.
C26_NearestPendingAssigned == AssignedCorrectly(beforeAssign)

\* C33: at the end of every World.step each assigned call is for the floor the
\* elevator is heading to or for a floor in its queue.
C33_AssignedFloorsHeld ==
    last.op = "step"
    => \A i \in 1..Len(calls) :
          calls[i].status = "assigned"
          => calls[i].floor = elev.targetFloor \/ InSeq(calls[i].floor, elev.queue)

-----------------------------------------------------------------------------
(* Claims on SpecNpc *)

\* the requester classes: the tracked passenger, and the NPCs
RequesterClass(who) == IF who = "Passenger" THEN "Passenger" ELSE "NPC"

\* C12: the call list holds at most one pending or assigned call per floor,
\* direction and requester class.
C12_OneLiveCallPerClass ==
    \A i, j \in 1..Len(calls) :
        (/\ i # j
         /\ isLive(calls[i]) /\ isLive(calls[j])
         /\ calls[i].floor = calls[j].floor /\ calls[i].dir = calls[j].dir)
        => RequesterClass(calls[i].who) # RequesterClass(calls[j].who)

-----------------------------------------------------------------------------
(* Claims on SpecDoor *)

\* C4: no step changes position while doorProgress, after the door update of
\* that step, is greater than 0.
C4_MovesOnlyDoorsClosed ==
    [][(last'.op = "step" /\ elev'.position # elev.position)
        => elev'.doorProgress = 0]_vars

\* C6: in no state is doorsOpen true while acceleration is non-zero and
\* targetFloor is non-null.
C6_NoOpenDoorAcceleration ==
    ~(elev.doorsOpen /\ elev.acceleration # 0 /\ elev.targetFloor # NoFloor)

\* C7: after every step that ends with doorsOpen true and doorProgress > 0.05,
\* velocity and acceleration are 0 and position is what it was before the step.
C7_OpenDoorStandsStill ==
    [][(last'.op = "step" /\ elev'.doorsOpen /\ elev'.doorProgress > DoorStopThreshold)
        => /\ elev'.velocity = 0
           /\ elev'.acceleration = 0
           /\ elev'.position = elev.position]_vars

-----------------------------------------------------------------------------
(* Claims on SpecQueue *)

\* C3: whatever requests, dispatches, pops and steps have happened, the queue
\* holds no floor equal to targetFloor and no floor twice.
C3_QueueDistinct ==
    /\ \A i \in 1..Len(elev.queue) : elev.queue[i] # elev.targetFloor
    /\ \A i, j \in 1..Len(elev.queue) : i # j => elev.queue[i] # elev.queue[j]

\* the dispatch has handed over a call for a floor that was already queued
C3_Witness ==
    /\ last.op = "step"
    /\ elev.targetFloor = NoFloor
    /\ Len(elev.queue) = 1
    /\ \E i \in 1..Len(calls) :
          calls[i].status = "assigned" /\ calls[i].floor = elev.queue[1]

-----------------------------------------------------------------------------
(* Claims on SpecServe *)

BecomesServed(i) ==
    /\ i <= Len(calls') /\ calls[i].status # "served" /\ calls'[i].status = "served"

\* C14: whenever a call becomes served, the doors are open and the cabin stands
\* still at the exact position of the call's floor.
C14_ServedAtOpenDoor ==
    [][\A i \in 1..Len(calls) :
          BecomesServed(i) =>
              /\ elev'.doorsOpen
              /\ elev'.velocity = 0
              /\ elev'.position = floorToMeters(elev', calls[i].floor)]_vars

\* C34: whenever the doors are open beyond 0.05, the cabin stands exactly at a
\* floor's coordinate, a multiple of the floor height.
C34_OpenOnlyAtFloor ==
    (elev.doorsOpen /\ elev.doorProgress > DoorStopThreshold)
    => elev.position % elev.floorHeight = 0

-----------------------------------------------------------------------------
(* Claims on SpecJam *)

\* C15: with door health below 5, openDoors() returns false and changes nothing
\* of the elevator: doorsOpen, state, arrivalTs and the auto-close timer stay as
\* they were, and closed doors stay closed.
C15_OpenRefused ==
    [][(last'.op = "openDoors" /\ elev.door < MinDoorHealth)
        => /\ ~last'.ok
           /\ elev'.doorsOpen = elev.doorsOpen
           /\ elev'.state = elev.state
           /\ elev'.arrivalTs = elev.arrivalTs
           /\ elev'.autoCloseTimer = elev.autoCloseTimer
           /\ elev' = elev]_vars

C15_Witness ==
    /\ last.op = "openDoors" /\ ~last.ok
    /\ elev.door < MinDoorHealth
    /\ ~elev.doorsOpen /\ elev.doorProgress = 0
    /\ elev.autoCloseTimer = NoTimer

JamOutcome(ch) == handleEvent(CurWorld, "door_jam", "none", now, ch)

IsDoorRepair(ev, t) ==
    /\ ev.type = "auto_repair" /\ ev.comp = "door"
    /\ ev.ts >= t + 12000 /\ ev.ts <= t + 40000

\* C16: a door_jam handled in any reachable state appends exactly one auto_repair
\* of the door, due 12 to 40 seconds later, and leaves the other scheduled
\* events alone; in its force-closed branch the doors are closed with
\* doorProgress 0 right after it, whatever they were before.
C16_JamClosesAndRepairs ==
    \A ch \in EvChoices :
        /\ ~ch.open => (~JamOutcome(ch).elev.doorsOpen /\ JamOutcome(ch).elev.doorProgress = 0)
        /\ Len(JamOutcome(ch).scheduled) = Len(scheduled) + 1
        /\ SubSeq(JamOutcome(ch).scheduled, 1, Len(scheduled)) = scheduled
        /\ IsDoorRepair(JamOutcome(ch).scheduled[Len(scheduled) + 1], now)

\* a World.step has just handled a jam that shut doors opened by openDoors: the
\* timer of that opening is still armed, the repair is scheduled
C16_Witness ==
    /\ last.op = "step"
    /\ ~elev.doorsOpen /\ elev.doorProgress = 0
    /\ elev.autoCloseTimer # NoTimer /\ now < elev.autoCloseTimer
    /\ Len(scheduled) = 1 /\ IsDoorRepair(scheduled[1], now)

\* C17: open doors are closed by the auto-close timer: the doors are never open
\* for longer than autoCloseMs after they became open or after the last door
\* command since.
C17_AutoClosed == elev.doorsOpen => now - last.doorMark <= elev.autoCloseMs

-----------------------------------------------------------------------------
(* Claims on SpecReload *)

\* C18: deserialize(serialize(world)) has the floor, the door state, the load,
\* the occupancy, the target and the queue of the world it was made from, and
\* the same calls with the same statuses.
C18_RoundTrip ==
    [][last'.op = "reload"
        => /\ metersToFloor(elev', elev'.position) = metersToFloor(elev, elev.position)
           /\ elev'.doorsOpen = elev.doorsOpen
           /\ elev'.doorProgress = elev.doorProgress
           /\ elev'.loadKg = elev.loadKg
           /\ elev'.playerInside = elev.playerInside
           /\ elev'.targetFloor = elev.targetFloor
           /\ elev'.queue = elev.queue
           /\ calls' = calls]_vars

\* a reload with the passenger aboard, the doors open, a target, a queued floor
\* and a call
C18_Witness ==
    /\ last.op = "reload"
    /\ elev.playerInside /\ elev.loadKg > 0
    /\ elev.doorsOpen /\ elev.doorProgress > 0
    /\ elev.targetFloor # NoFloor /\ Len(elev.queue) > 0
    /\ Len(calls) > 0

-----------------------------------------------------------------------------
(* Claims on SpecSnapshot *)

Distinct(s) == \A i, j \in 1..Len(s) : s[i] = s[j] => i = j

\* C19: the world built from a snapshot with missing or malformed fields
\* satisfies the elevator's invariants: doorProgress lies in [0, 1], the queue
\* holds no floor twice and does not hold the target.
C19_LoadedWellFormed ==
    last.op = "none"
        => /\ elev.doorProgress >= 0 /\ elev.doorProgress <= DoorFull
           /\ Distinct(elev.queue)
           /\ ~InSeq(elev.targetFloor, elev.queue)

-----------------------------------------------------------------------------
(* Claims on SpecWindow *)

TrigsWithin(ms) == Len(SelectSeq(last.trigs, LAMBDA x : now - x < ms))

\* C20: shouldTriggerEvent returns true at most cap times within any 60 seconds:
\* at any moment, at most cap triggers lie less than 60 s back.
C20_RollingCap == TrigsWithin(EventWindowMs) <= eventWindow.cap

-----------------------------------------------------------------------------
(* Claims on SpecFrame *)

\* st.world after st.k more steps
RECURSIVE StepsOf(_, _)
StepsOf(st, t) ==
    IF st.k = 0 THEN st.world
    ELSE StepsOf([world |-> worldStep(st.world, t, quietRnd), k |-> st.k - 1], t)

\* C21: a frame runs at most 8 World.step calls, each of one fixed step of
\* 1/60 s, however long ago the previous frame was.
C21_FrameStepsCapped ==
    [][last'.op = "frame"
        => /\ loop'.steps <= 8
           /\ CurWorld' = StepsOf([world |-> CurWorld, k |-> loop'.steps], now')]_vars

\* a frame that came a second after the previous one and ran its 8 steps
C21_Witness ==
    /\ last.op = "frame" /\ last.arg = 1000
    /\ loop.steps = 8
    /\ elev.velocity > 0

\* C22: after every frame the accumulator holds less than one fixed step: the
\* time the capped loop could not consume has been discarded.
C22_BacklogDiscarded == loop.accumulator < StepThirds

-----------------------------------------------------------------------------
(* Claims on SpecSchedule *)

Waiting == SelectSeq(scheduled, LAMBDA ev : now < ev.ts)
DueOf(type) == Len(SelectSeq(scheduled, LAMBDA ev : now >= ev.ts /\ ev.type = type))
Added == SubSeq(scheduled', Len(Waiting) + 1, Len(scheduled'))

\* C23: a World.step removes from the scheduled list exactly the events whose
\* fire time has come and handles each of them once; the events not yet due
\* stay, in their order; every auto_repair pushed by a handled door_jam is in
\* the list afterwards.
C23_HandledOnce ==
    [][last'.op = "step"
        => /\ Len(scheduled') >= Len(Waiting)
           /\ SubSeq(scheduled', 1, Len(Waiting)) = Waiting
           /\ Len(Added) = DueOf("door_jam")
           /\ \A i \in 1..Len(Added) : IsDoorRepair(Added[i], now)
           /\ (DueOf("door_jam") = 1 /\ DueOf("auto_repair") = 0)
                => elev'.door \in {Max(0, elev.door - 6), Max(0, elev.door - 18)}
           /\ (DueOf("door_jam") = 0 /\ DueOf("auto_repair") = 1)
                => elev'.door \in {Min(100, elev.door + 12), Min(100, elev.door + 40)}
           /\ (DueOf("door_jam") = 0 /\ DueOf("auto_repair") = 0)
                => elev'.door = elev.door]_vars

\* a World.step has handled two door jams between two events that wait on
C23_Witness ==
    /\ last.op = "step"
    /\ Len(scheduled) = 3
    /\ scheduled[1].type = "auto_repair" /\ scheduled[1].ts = Epoch0 + 4000
    /\ IsDoorRepair(scheduled[2], now) /\ IsDoorRepair(scheduled[3], now)
    /\ now = Epoch0 + 2000
    /\ elev.door = 100 - 6 - 18

-----------------------------------------------------------------------------
(* Claims on SpecEmergency *)

\* C24: once the state is EMERGENCY, no step, request, door command or event
\* changes position or velocity or takes the state out of EMERGENCY.
C24_EmergencyTerminal ==
    [][elev.state = "EMERGENCY"
        => /\ elev'.state = "EMERGENCY"
           /\ elev'.position = elev.position
           /\ elev'.velocity = elev.velocity]_vars

-----------------------------------------------------------------------------
(* Claims on SpecQueue: the choice of the next target *)

QueueDistance(e, k) == Abs(e.queue[k] - metersToFloor(e, e.position))

\* the queue entry nearest to the cabin's floor, the earliest-queued among equals
NearestQueued(e, k) ==
    \A j \in 1..Len(e.queue) :
        \/ QueueDistance(e, k) < QueueDistance(e, j)
        \/ QueueDistance(e, k) = QueueDistance(e, j) /\ k <= j

PoppedNearest(e) ==
    LET p == popNextTarget(e) IN
    IF e.targetFloor # NoFloor \/ Len(e.queue) = 0 THEN p = e
    ELSE \E k \in 1..Len(e.queue) :
            /\ NearestQueued(e, k)
            /\ p = [e EXCEPT !.targetFloor = e.queue[k],
                             !.queue = SubSeq(e.queue, 1, k - 1)
                                       \o SubSeq(e.queue, k + 1, Len(e.queue))]

\* C27: with no target and a non-empty queue popNextTarget moves to targetFloor
\* the queued floor nearest to the cabin's current floor, the earliest-queued
\* on a tie, and keeps the order of the other entries; with a target set or an
\* empty queue it changes nothing.
C27_PopNearest == PoppedNearest(elev)

\* a step after the arrival at floor 1 chose floor 2 from the queue <<2, 0>>,
\* two floors equally far, and the cabin made its first move towards it
C27_Witness ==
    /\ last.op = "step"
    /\ elev.arrivalFloor = 1
    /\ elev.targetFloor = 2 /\ elev.queue = <<0>>
    /\ elev.velocity > 0
    /\ elev.position = floorToMeters(elev, 1) + TDiv(elev.velocity, StepsPerSecond)

-----------------------------------------------------------------------------
(* Claims on SpecCancel *)

\* C25: a successful closeDoors leaves no auto-close timer pending, and a timer
\* that closes the doors was armed in the door-open cycle it closes: not
\* before the doors last became open.
C25_CloseCancels ==
    [][/\ (last'.op = "closeDoors" /\ last'.ok) => elev'.autoCloseTimer = NoTimer
       /\ (last'.op = "autoClose" /\ last'.ok)
            => elev.autoCloseTimer - elev.autoCloseMs >= last.doorMark]_vars

-----------------------------------------------------------------------------
(* Claims on SpecSettle *)

\* the world on which the stepBoarding of the next World.step acts
beforeBoarding == elevStepInWorld(CurWorld, now)

\* c2 is c with the live calls of floor f served and every other call as it was
ServedAtFloor(c, c2, f) ==
    /\ Len(c2) = Len(c)
    /\ \A i \in 1..Len(c) :
          IF c[i].floor = f /\ c[i].status \in {"pending", "assigned"}
          THEN c2[i] = [c[i] EXCEPT !.status = "served"]
          ELSE c2[i] = c[i]

\* C28: when the cabin stands with its doors fully open, the step's boarding
\* stage serves every pending or assigned call of the cabin's floor, and
\* markCallServedAtFloor(f), for any floor f, changes no call of another floor
\* and no call that is already served.
C28_AllServedAtFloor ==
    /\ boardingGate(beforeBoarding.elev, now)
         => ServedAtFloor(beforeBoarding.calls,
                          stepBoarding(beforeBoarding, now, quietRnd).calls,
                          metersToFloor(elev, elev.position))
    /\ \A f \in 0..(elev.floors - 1) :
          ServedAtFloor(calls, markCallServedAtFloor(calls, f), f)

\* the cabin never arrived anywhere: the button opened its doors at floor 0.
\* The step in which the doors came fully open has served the two calls of
\* floor 0, the first of which was assigned while the doors were opening (its
\* floor is the target), and left the call of floor 1 pending
C28_Witness ==
    /\ last.op = "step"
    /\ boardingGate(elev, now)
    /\ metersToFloor(elev, elev.position) = 0
    /\ Len(calls) = 3
    /\ calls[1].floor = 0 /\ calls[1].status = "served"
    /\ calls[2].floor = 0 /\ calls[2].status = "served"
    /\ calls[3].floor = 1 /\ calls[3].status = "pending"
    /\ elev.targetFloor = 0 /\ elev.arrivalFloor = NoFloor
    /\ elev.doorProgress < DoorFull

-----------------------------------------------------------------------------
(* Claims on SpecOrder *)

\* the step handles one due door jam, which opens doors that were shut
JamOpensInStep ==
    /\ last'.op = "step"
    /\ Cardinality(DueIdx(now)) = 1
    /\ \A i \in DueIdx(now) : scheduled[i].type = "door_jam"
    /\ ~elev.doorsOpen /\ elev.doorProgress = 0
    /\ elev'.doorsOpen /\ elev'.doorProgress = DoorFull

\* the step dispatches a call to a cabin that stood without target and queue
DispatchInStep ==
    /\ last'.op = "step"
    /\ elev.targetFloor = NoFloor /\ Len(elev.queue) = 0 /\ elev.velocity = 0
    /\ elev'.targetFloor # NoFloor

\* C29: World.step runs the due scheduled events before the elevator step and
\* the call dispatch after it: a door jam that opens the doors stops the cabin
\* in the step that handles it, and a call dispatched in a step leaves the
\* cabin where it stood until the next step.
C29_StepOrder ==
    [][/\ JamOpensInStep
          => /\ elev'.velocity = 0 /\ elev'.acceleration = 0
             /\ elev'.position = elev.position
             /\ elev'.state = "DOOR_OPEN"
       /\ DispatchInStep
          => /\ elev'.position = elev.position
             /\ elev'.velocity = 0
             /\ \E i \in 1..Len(calls') :
                   calls'[i].status = "assigned" /\ calls'[i].floor = elev'.targetFloor]_vars

\* the jam has opened the doors of the travelling cabin, which stands between
\* two floors with its target still set; the repair is scheduled
C29_Witness ==
    /\ last.op = "step"
    /\ elev.doorsOpen /\ elev.doorProgress = DoorFull /\ elev.state = "DOOR_OPEN"
    /\ elev.velocity = 0
    /\ elev.targetFloor # NoFloor
    /\ elev.position # floorToMeters(elev, metersToFloor(elev, elev.position))
    /\ elev.autoCloseTimer = NoTimer
    /\ Len(scheduled) = 1 /\ scheduled[1].type = "auto_repair"


\* the floor the next step travels to: the target, or the floor it takes from the queue
FormerTarget(e) ==
    IF e.targetFloor # NoFloor THEN e.targetFloor ELSE popNextTarget(e).targetFloor

ArrivalSettled(e, t) ==
    LET r == step(e, t) IN
    r.arrived
    => /\ r.e.position = FormerTarget(e) * e.floorHeight
       /\ r.e.velocity = 0 /\ r.e.acceleration = 0
       /\ r.e.arrivalFloor = FormerTarget(e)
       /\ r.e.targetFloor = NoFloor
       /\ IF e.door >= 5
          THEN r.e.doorsOpen
          ELSE /\ r.e.state = "ARRIVED"
               /\ r.e.doorsOpen = e.doorsOpen
               /\ r.e.autoCloseTimer = e.autoCloseTimer

\* C30: the step that detects the arrival leaves the cabin exactly at the
\* target floor's coordinate with velocity and acceleration 0, arrivalFloor the
\* former target and no target; with door health of 5 or more the doors are
\* open, below 5 the state is ARRIVED and the doors are as they were.
C30_ArrivalSettled == ArrivalSettled(elev, now)

\* the cabin has arrived with a door worn below 5 by the jam: the doors stayed
\* shut and the state is ARRIVED
C30_Witness ==
    /\ last.op = "step" /\ last.ok
    /\ elev.door < 5
    /\ elev.state = "ARRIVED" /\ ~elev.doorsOpen
    /\ elev.arrivalFloor = 2
    /\ elev.position = 2 * elev.floorHeight
    /\ elev.velocity = 0
    /\ elev.autoCloseTimer = NoTimer

-----------------------------------------------------------------------------
(* Claims on SpecLoad *)

\* C31: whatever the passenger and the NPCs do at the door, the load stays
\* between 0 and the overload limit.
C31_LoadWithinLimit == elev.loadKg >= 0 /\ elev.loadKg <= elev.overloadLimitKg

\* NPCs have left and the passenger has boarded a cabin loaded to within
\* 50 kg of the limit: the step found no room for the NPC that wanted in
C31_Witness ==
    /\ last.op = "step"
    /\ elev.playerInside
    /\ budget.churn = 0
    /\ elev.loadKg > elev.overloadLimitKg - 50

\* C32: while the passenger is inside, the load is at least the passenger's
\* weight: the NPCs that leave take none of it.
C32_PassengerWeightKept == elev.playerInside => elev.loadKg >= PassengerWeightKg

-----------------------------------------------------------------------------
(* Claims on SpecStuck *)

\* C35: under fair ticks and timers every call that was accepted is served in
\* the end, door jams and repairs notwithstanding.
C35_CallsServed ==
    \A i \in 1..StuckCalls :
        (Len(calls) >= i /\ calls[i].status \in {"pending", "assigned"})
            ~> (Len(calls) >= i /\ calls[i].status = "served")

=============================================================================
